---------------------------- MODULE Spec2Model ----------------------------
(***************************************************************************)
(* A model of the llm-router core: the model registry and its availability *)
(* flags, the heuristic, model and hybrid classifiers, the routing engine  *)
(* (candidate filter, scoring, decision), the backend client cache and the *)
(* router service (routePrompt with its static fallback, its truncation    *)
(* and its request log).                                                   *)
(*                                                                         *)
(* Specifications.  Spec: concurrent routePrompt calls with the registry   *)
(* and metrics operations.  SpecLog: a nearly full request log.            *)
(* SpecRegistry: the registry operations around one call.  SpecClassify:   *)
(* the classifiers over more prompts and replies.  SpecScoring: the        *)
(* routing engine over every set of candidates.  SpecTruncate: answers     *)
(* around the truncation limit.                                            *)
(*                                                                         *)
(* Units.  The source computes with IEEE doubles; the model computes with  *)
(* integers in fixed units:                                                *)
(*   quality priors and priority weights   1/100                           *)
(*   scores and confidences                1/1000000 ("micro")             *)
(*   prices per million tokens             0.05 USD                        *)
(*   latencies                             10 ms                           *)
(*   costs in USD                          5e-8 USD (token x price unit)   *)
(* The smallest gap between two candidates' scores over every subset of    *)
(* the registry, preset, prompt type and token class is about 90 micro,    *)
(* the rounding of the model at most a few micro, so the ranking is the    *)
(* source's.                                                               *)
(***************************************************************************)
EXTENDS Integers, Sequences, FiniteSets, TLC

(***************************************************************************)
(* Enumerations (src/src/lib/types/index.ts)                               *)
(***************************************************************************)
PromptTypes == <<"code", "summarize", "qa", "creative", "math_reasoning", "unknown">>

PromptTypeSet == {PromptTypes[i] : i \in 1..Len(PromptTypes)}

PriorityPresets == {"balanced", "quality", "cost", "latency"}

(***************************************************************************)
(* Model registry (src/src/lib/models/model-registry.ts).  The mutable     *)
(* field isAvailable is the variable avail; the rest is static.            *)
(***************************************************************************)
RegistryKeys ==
  <<"claude-3-7-sonnet-20250219", "gpt-5", "gemini-1.5-flash", "gpt-4o-mini", "gpt-oss-20b">>

Keys == {RegistryKeys[i] : i \in 1..Len(RegistryKeys)}

MODEL_REGISTRY ==
  [k \in Keys |->
    CASE k = "claude-3-7-sonnet-20250219" ->
           [provider |-> "anthropic", modelName |-> "claude-3-7-sonnet-20250219",
            contextWindowTokens |-> 200000,
            priceInputPerMillion |-> 60, priceOutputPerMillion |-> 300,
            latencyP50Seconds |-> 134,
            qualityPriorByType |-> [code |-> 98, summarize |-> 95, qa |-> 96,
                                    creative |-> 98, math_reasoning |-> 95, unknown |-> 92]]
      [] k = "gpt-5" ->
           [provider |-> "openai", modelName |-> "gpt-5",
            contextWindowTokens |-> 400000,
            priceInputPerMillion |-> 25, priceOutputPerMillion |-> 200,
            latencyP50Seconds |-> 752,
            qualityPriorByType |-> [code |-> 99, summarize |-> 96, qa |-> 99,
                                    creative |-> 97, math_reasoning |-> 99, unknown |-> 94]]
      [] k = "gemini-1.5-flash" ->
           [provider |-> "google", modelName |-> "gemini-1.5-flash",
            contextWindowTokens |-> 1050000,
            priceInputPerMillion |-> 6, priceOutputPerMillion |-> 50,
            latencyP50Seconds |-> 45,
            qualityPriorByType |-> [code |-> 85, summarize |-> 88, qa |-> 86,
                                    creative |-> 84, math_reasoning |-> 82, unknown |-> 85]]
      [] k = "gpt-4o-mini" ->
           [provider |-> "openai", modelName |-> "gpt-4o-mini",
            contextWindowTokens |-> 128000,
            priceInputPerMillion |-> 3, priceOutputPerMillion |-> 12,
            latencyP50Seconds |-> 46,
            qualityPriorByType |-> [code |-> 82, summarize |-> 80, qa |-> 81,
                                    creative |-> 79, math_reasoning |-> 75, unknown |-> 85]]
      [] k = "gpt-oss-20b" ->
           [provider |-> "huggingface", modelName |-> "openai/gpt-oss-20b:fireworks-ai",
            contextWindowTokens |-> 128000,
            priceInputPerMillion |-> 0, priceOutputPerMillion |-> 0,
            latencyP50Seconds |-> 80,
            qualityPriorByType |-> [code |-> 78, summarize |-> 82, qa |-> 80,
                                    creative |-> 75, math_reasoning |-> 70, unknown |-> 85]]]

\* The provider-native model names, and every name a client can be asked for.
ModelNames == {MODEL_REGISTRY[k].modelName : k \in Keys}

Names == Keys \cup ModelNames

\* Object.entries(MODEL_REGISTRY).find(([, cfg]) => cfg.modelName === name)
KeyOfModelName(name) ==
  LET i == CHOOSE i \in 1..Len(RegistryKeys) :
             /\ MODEL_REGISTRY[RegistryKeys[i]].modelName = name
             /\ \A j \in 1..(i - 1) : MODEL_REGISTRY[RegistryKeys[j]].modelName # name
  IN RegistryKeys[i]

\* computeDerivedProperties: the routing view of a registry entry, with the
\* availability flag av of that entry.
computeDerivedProperties(k, av) ==
  LET m == MODEL_REGISTRY[k] IN
  [key |-> k,
   provider |-> m.provider,
   modelName |-> m.modelName,
   contextWindow |-> m.contextWindowTokens,
   inputCostPer1kTokens |-> m.priceInputPerMillion,
   outputCostPer1kTokens |-> m.priceOutputPerMillion,
   latencyMs |-> m.latencyP50Seconds,
   capabilities |-> DOMAIN m.qualityPriorByType,
   qualityPriors |-> m.qualityPriorByType,
   throughputTps |-> (200000 + m.latencyP50Seconds) \div (2 * m.latencyP50Seconds),
   isAvailable |-> av]

(***************************************************************************)
(* Routing rules (src/unnamed/part_004) and the numeric library            *)
(***************************************************************************)
PRIORITY_WEIGHTS ==
  [p \in PriorityPresets |->
    CASE p = "balanced" -> [quality |-> 45, cost |-> 30, latency |-> 25]
      [] p = "quality"  -> [quality |-> 70, cost |-> 20, latency |-> 10]
      [] p = "cost"     -> [quality |-> 20, cost |-> 70, latency |-> 10]
      [] p = "latency"  -> [quality |-> 20, cost |-> 10, latency |-> 70]]

\* DEFAULT_PRIORITY_WEIGHTS (src/src/lib/types/index.ts): a second table of
\* weights, which the routing engine does not read
DEFAULT_PRIORITY_WEIGHTS ==
  [p \in PriorityPresets |->
    CASE p = "balanced" -> [quality |-> 45, cost |-> 30, latency |-> 25]
      [] p = "quality"  -> [quality |-> 65, cost |-> 15, latency |-> 20]
      [] p = "cost"     -> [quality |-> 30, cost |-> 50, latency |-> 20]
      [] p = "latency"  -> [quality |-> 30, cost |-> 20, latency |-> 50]]

\* The value of a division 0/0 and of every arithmetic on it.
NaN == -1

MaxOf(S) == CHOOSE x \in S : \A y \in S : y <= x

MinOf(S) == CHOOSE x \in S : \A y \in S : x <= y

\* Math.max(a, b) with a possibly NaN
MathMax(a, b) == IF a = NaN THEN NaN ELSE IF a >= b THEN a ELSE b

\* a + b with either possibly NaN
Plus(a, b) == IF a = NaN \/ b = NaN THEN NaN ELSE a + b

\* score * weight, the score in micro (possibly NaN), the weight in 1/100
Weighted(score, weight) == IF score = NaN THEN NaN ELSE (score * weight) \div 100

\* Math.pow(q, 0.3) in micro, q in 1/100, at the quality priors of the registry
Pow03(q) ==
  CASE q = 70 -> 898523 [] q = 75 -> 917315 [] q = 78 -> 928172 [] q = 79 -> 931726
    [] q = 80 -> 935248 [] q = 81 -> 938740 [] q = 82 -> 942202 [] q = 84 -> 949038
    [] q = 85 -> 952414 [] q = 86 -> 955762 [] q = 88 -> 962376 [] q = 92 -> 975296
    [] q = 94 -> 981609 [] q = 95 -> 984730 [] q = 96 -> 987828 [] q = 97 -> 990904
    [] q = 98 -> 993958 [] q = 99 -> 996989

\* 1 - Math.log(1 + 2 * (num / den)) / Math.log(3) in micro, at the price
\* differences of the registry; 0/0 is NaN.
LogCostScore(num, den) ==
  IF den = 0 THEN NaN
  ELSE IF num = 0 THEN 1000000
  ELSE IF num = den THEN 0
  ELSE CASE <<num, den>> = <<3, 6>>   -> 369070
         [] <<num, den>> = <<3, 25>>  -> 804197
         [] <<num, den>> = <<3, 60>>  -> 913245
         [] <<num, den>> = <<6, 25>>  -> 643148
         [] <<num, den>> = <<6, 60>>  -> 834044
         [] <<num, den>> = <<25, 60>> -> 448271
         [] <<num, den>> = <<3, 22>>  -> 780485
         [] <<num, den>> = <<3, 57>>  -> 908900
         [] <<num, den>> = <<22, 57>> -> 479280
         [] <<num, den>> = <<19, 54>> -> 515020

\* Math.sqrt(x) in micro: the integer r with r*r <= x * 1000000 < (r+1)*(r+1),
\* found on the thousands and refined, without leaving 32-bit integers.
MathSqrt(x) ==
  IF x = 0 THEN 0
  ELSE IF x = 821809 THEN 906537
  ELSE LET r == CHOOSE r \in 0..1000 : r * r <= x \div 1000 /\ (r + 1) * (r + 1) > x \div 1000
       IN r * 1000

\* modelName.includes('claude') || modelName.includes('gpt-5'), over the
\* provider-native names of the registry
IsPremiumName(modelName) == modelName \in {"claude-3-7-sonnet-20250219", "gpt-5"}

(***************************************************************************)
(* Routing engine (src/src/lib/routing/routing-engine.ts)                  *)
(***************************************************************************)
\* getAvailableModels without the availability test
getAvailableModelsUnfiltered(promptType, estimatedTokens, av) ==
  LET all == [i \in 1..Len(RegistryKeys) |->
                computeDerivedProperties(RegistryKeys[i], av[RegistryKeys[i]])]
      Candidate(config) ==
        /\ promptType \in config.capabilities
        /\ config.contextWindow >= estimatedTokens
  IN SelectSeq(all, Candidate)

\* getAvailableModels reading every flag but the first model's
getAvailableModelsButFirst(promptType, estimatedTokens, av) ==
  LET all == [i \in 1..Len(RegistryKeys) |->
                computeDerivedProperties(RegistryKeys[i], av[RegistryKeys[i]])]
      Candidate(config) ==
        /\ promptType \in config.capabilities
        /\ config.contextWindow >= estimatedTokens
        /\ (config.isAvailable # FALSE \/ config.key = RegistryKeys[1])
  IN SelectSeq(all, Candidate)

\* getAvailableModels: the registry entries, in registry order, that support
\* the prompt type, have room for the prompt and are not marked unavailable.
getAvailableModels(promptType, estimatedTokens, av) ==
  LET all == [i \in 1..Len(RegistryKeys) |->
                computeDerivedProperties(RegistryKeys[i], av[RegistryKeys[i]])]
      Candidate(config) ==
        /\ promptType \in config.capabilities
        /\ config.contextWindow >= estimatedTokens
        /\ config.isAvailable # FALSE
  IN SelectSeq(all, Candidate)

SeqRange(s) == {s[i] : i \in 1..Len(s)}

\* The score of one model among the candidates `models` (scoreModels, the
\* body of the map).
ModelScore(model, models, weights, promptType, estimatedTokens) ==
  LET q == model.qualityPriors[promptType]
      qualityScore == IF q = 0 THEN 50 ELSE q
      effectiveQualityScore ==
        IF weights.quality > 50
        THEN Pow03(qualityScore) + (IF qualityScore > 90 THEN 100000 ELSE 0)
        ELSE qualityScore * 10000
      costs == {m.inputCostPer1kTokens : m \in SeqRange(models)}
      maxCost == MaxOf(costs)
      minCost == MinOf(costs)
      premium == IsPremiumName(model.modelName)
      logScore == LogCostScore(model.inputCostPer1kTokens - minCost, maxCost - minCost)
      costScore ==
        IF maxCost > 0
        THEN IF weights.cost > 40
             THEN 1000000 - (model.inputCostPer1kTokens * 1000000) \div maxCost
             ELSE IF model.inputCostPer1kTokens = 0
                  THEN 600000
                  ELSE IF weights.quality > 60
                       THEN MathMax(logScore, IF premium THEN 600000 ELSE 400000)
                       ELSE logScore
        ELSE 500000
      maxLatency == MaxOf({m.latencyMs : m \in SeqRange(models)})
      rawLatencyScore == 1000000 - (model.latencyMs * 1000000) \div maxLatency
      latencyScore ==
        IF weights.quality > 60 /\ premium THEN MathSqrt(rawLatencyScore)
        ELSE rawLatencyScore
      room == model.contextWindow - estimatedTokens
      contextBonus ==
        IF estimatedTokens > 1000
        THEN (IF room >= 1000 THEN 100000 ELSE room * 100)
        ELSE 0
      maxThroughput == MaxOf({m.throughputTps : m \in SeqRange(models)})
      throughputScore == (model.throughputTps * 50000) \div maxThroughput
  IN Plus(Plus(Plus(Plus(Weighted(effectiveQualityScore, weights.quality),
                         Weighted(costScore, weights.cost)),
                    Weighted(latencyScore, weights.latency)),
               contextBonus),
          throughputScore)

\* The comparator (a, b) => a.score - b.score: worst score first
ComesBeforeAscending(b, a) == a.score # NaN /\ b.score # NaN /\ b.score < a.score

\* (a, b) => b.score - a.score is positive: b must come before a.  A NaN
\* difference compares as equal.
ComesBefore(b, a) == a.score # NaN /\ b.score # NaN /\ b.score > a.score

\* Array.prototype.sort with that comparator: stable, best score first.
RECURSIVE SortByScore(_)
SortByScore(s) ==
  IF Len(s) <= 1 THEN s
  ELSE LET front == SortByScore(SubSeq(s, 1, Len(s) - 1))
           x == s[Len(s)]
           ahead == {i \in 1..Len(front) : ComesBefore(x, front[i])}
           at == IF ahead = {} THEN Len(front) + 1 ELSE MinOf(ahead)
       IN SubSeq(front, 1, at - 1) \o <<x>> \o SubSeq(front, at, Len(front))

\* scoreModels: every candidate with its score, sorted.
scoreModels(models, priorityPreset, promptType, estimatedTokens) ==
  LET weights == PRIORITY_WEIGHTS[priorityPreset]
      scored == [i \in 1..Len(models) |->
                  [model |-> models[i],
                   score |-> ModelScore(models[i], models, weights, promptType,
                                        estimatedTokens)]]
  IN SortByScore(scored)

\* x || 0 for a score x
OrZero(x) == IF x = NaN THEN 0 ELSE x

\* calculateConfidence, in micro
calculateConfidence(selected, scoredModels) ==
  IF Len(scoredModels) = 1 THEN 1000000
  ELSE LET selectedScore == OrZero(selected.score)
           secondBestScore == OrZero(scoredModels[2].score)
           scoreDifference == selectedScore - secondBestScore
           maxScore == IF selectedScore >= secondBestScore THEN selectedScore
                       ELSE secondBestScore
           c == 500000 + ((scoreDifference * 1000) \div maxScore) * 500
       IN IF secondBestScore = 0 THEN 1000000
          ELSE IF c > 1000000 THEN 1000000 ELSE c

\* estimateCost, in units of 5e-9 USD
estimateCost(model, estimatedTokens) ==
  estimatedTokens * (10 * model.inputCostPer1kTokens + 3 * model.outputCostPer1kTokens)

Undefined == "undefined"

\* routeRequest after the candidate filter: the decision for a non-empty
\* list of candidates.
MakeDecision(availableModels, priorityPreset, promptType, estimatedTokens) ==
  LET scoredModels == scoreModels(availableModels, priorityPreset, promptType, estimatedTokens)
      selectedModel == scoredModels[1]
      NotSelected(e) == /\ e.model.modelName # selectedModel.model.modelName
                        /\ e.model.isAvailable # FALSE
      others == SelectSeq(scoredModels, NotSelected)
      IsAvailable(e) == e.model.isAvailable # FALSE
      rest == SelectSeq(SubSeq(scoredModels, 2, Len(scoredModels)), IsAvailable)
      top4 == SubSeq(rest, 1, IF Len(rest) < 4 THEN Len(rest) ELSE 4)
  IN [selectedModel |-> selectedModel.model.modelName,
      provider |-> selectedModel.model.provider,
      promptType |-> promptType,
      fallbackModel |-> IF Len(others) = 0 THEN Undefined ELSE others[1].model.modelName,
      confidence |-> calculateConfidence(selectedModel, scoredModels),
      estimatedCost |-> estimateCost(selectedModel.model, estimatedTokens),
      estimatedLatency |-> selectedModel.model.latencyMs,
      score |-> OrZero(selectedModel.score),
      priorityWeights |-> PRIORITY_WEIGHTS[priorityPreset],
      alternatives |-> [i \in 1..Len(top4) |->
                          [modelName |-> top4[i].model.modelName,
                           score |-> OrZero(top4[i].score),
                           provider |-> top4[i].model.provider,
                           qualityScore |-> top4[i].model.qualityPriors[promptType],
                           costPer1kTokens |-> top4[i].model.inputCostPer1kTokens,
                           latencyMs |-> top4[i].model.latencyMs]]]


(***************************************************************************)
(* Prompts.  A prompt is a text, a sequence of characters, followed by pad *)
(* blanks: the length decides the token estimate, the text the keywords.   *)
(* No keyword begins or ends with a blank, so the text decides every       *)
(* includes().                                                             *)
(***************************************************************************)
PromptLength(prompt) == Len(prompt.text) + prompt.pad

ToLowerChar(c) ==
  CASE c = "A" -> "a" [] c = "B" -> "b" [] c = "C" -> "c" [] c = "D" -> "d" [] c = "E" -> "e"
    [] c = "F" -> "f" [] c = "G" -> "g" [] c = "H" -> "h" [] c = "I" -> "i" [] c = "J" -> "j"
    [] c = "K" -> "k" [] c = "L" -> "l" [] c = "M" -> "m" [] c = "N" -> "n" [] c = "O" -> "o"
    [] c = "P" -> "p" [] c = "Q" -> "q" [] c = "R" -> "r" [] c = "S" -> "s" [] c = "T" -> "t"
    [] c = "U" -> "u" [] c = "V" -> "v" [] c = "W" -> "w" [] c = "X" -> "x" [] c = "Y" -> "y"
    [] c = "Z" -> "z"
    [] OTHER -> c

\* String.prototype.toLowerCase
toLowerCase(s) == [i \in 1..Len(s) |-> ToLowerChar(s[i])]

\* String.prototype.includes
includes(s, kw) ==
  \E i \in 1..(Len(s) - Len(kw) + 1) : SubSeq(s, i, i + Len(kw) - 1) = kw

(***************************************************************************)
(* Heuristic classifier (src/unnamed/part_001, from line 200) over         *)
(* PROMPT_TYPE_MAPPING (src/src/lib/types/index.ts)                        *)
(***************************************************************************)
PROMPT_TYPE_MAPPING ==
  [code |->
     [estimatedOutputTokens |-> 500,
      keywords |-> <<
        <<"w", "r", "i", "t", "e">>,
        <<"c", "o", "d", "e">>,
        <<"f", "u", "n", "c", "t", "i", "o", "n">>,
        <<"c", "l", "a", "s", "s">>,
        <<"a", "l", "g", "o", "r", "i", "t", "h", "m">>,
        <<"p", "r", "o", "g", "r", "a", "m">>,
        <<"s", "c", "r", "i", "p", "t">> >>],
   summarize |->
     [estimatedOutputTokens |-> 300,
      keywords |-> <<
        <<"s", "u", "m", "m", "a", "r", "i", "z", "e">>,
        <<"s", "u", "m", "m", "a", "r", "y">>,
        <<"b", "r", "i", "e", "f">>,
        <<"o", "v", "e", "r", "v", "i", "e", "w">>,
        <<"t", "l", ";", "d", "r">>,
        <<"k", "e", "y", " ", "p", "o", "i", "n", "t", "s">> >>],
   qa |->
     [estimatedOutputTokens |-> 200,
      keywords |-> <<
        <<"w", "h", "a", "t", " ", "i", "s">>,
        <<"h", "o", "w", " ", "t", "o">>,
        <<"e", "x", "p", "l", "a", "i", "n">>,
        <<"w", "h", "y">>,
        <<"w", "h", "e", "n">>,
        <<"w", "h", "e", "r", "e">>,
        <<"q", "u", "e", "s", "t", "i", "o", "n">>,
        <<"h", "e", "l", "l", "o">>,
        <<"h", "i">>,
        <<"h", "o", "w", " ", "a", "r", "e", " ", "y", "o", "u">>,
        <<"h", "o", "w", " ", "d", "o", " ", "y", "o", "u", " ", "d", "o">>,
        <<"g", "r", "e", "e", "t", "i", "n", "g">>,
        <<"c", "o", "n", "v", "e", "r", "s", "a", "t", "i", "o", "n">> >>],
   creative |->
     [estimatedOutputTokens |-> 400,
      keywords |-> <<
        <<"w", "r", "i", "t", "e">>,
        <<"s", "t", "o", "r", "y">>,
        <<"p", "o", "e", "m">>,
        <<"c", "r", "e", "a", "t", "i", "v", "e">>,
        <<"i", "m", "a", "g", "i", "n", "e">>,
        <<"d", "e", "s", "c", "r", "i", "b", "e">>,
        <<"n", "a", "r", "r", "a", "t", "i", "v", "e">> >>],
   math_reasoning |->
     [estimatedOutputTokens |-> 600,
      keywords |-> <<
        <<"c", "a", "l", "c", "u", "l", "a", "t", "e">>,
        <<"s", "o", "l", "v", "e">>,
        <<"e", "q", "u", "a", "t", "i", "o", "n">>,
        <<"m", "a", "t", "h", "e", "m", "a", "t", "i", "c", "a", "l">>,
        <<"m", "a", "t", "h">>,
        <<"a", "l", "g", "e", "b", "r", "a">>,
        <<"g", "e", "o", "m", "e", "t", "r", "y">>,
        <<"c", "a", "l", "c", "u", "l", "u", "s">>,
        <<"s", "t", "a", "t", "i", "s", "t", "i", "c", "s">>,
        <<"p", "r", "o", "b", "a", "b", "i", "l", "i", "t", "y">>,
        <<"p", "r", "o", "o", "f">>,
        <<"t", "h", "e", "o", "r", "e", "m">>,
        <<"f", "o", "r", "m", "u", "l", "a">>,
        <<"c", "o", "s">>,
        <<"s", "i", "n">>,
        <<"t", "a", "n">>,
        <<"l", "o", "g">>,
        <<"l", "n">>,
        <<"d", "e", "r", "i", "v", "a", "t", "i", "v", "e">>,
        <<"i", "n", "t", "e", "g", "r", "a", "l">>,
        <<"m", "a", "t", "r", "i", "x">>,
        <<"v", "e", "c", "t", "o", "r">>,
        <<"s", "q", "r", "t">>,
        <<"e", "x", "p">>,
        <<"p", "i">>,
        <<"=">>,
        <<"+">>,
        <<"-">>,
        <<"*">>,
        <<"/">>,
        <<"^">>,
        <<"x">>,
        <<"y">>,
        <<"z">> >>],
   unknown |->
     [estimatedOutputTokens |-> 300,
      keywords |-> << >>]]


\* calculateKeywordScore, in micro: min(1, matched/all + 0.1 * matched)
calculateKeywordScore(matchedKeywords, allKeywords) ==
  IF Len(allKeywords) = 0 THEN 0
  ELSE LET n == Len(matchedKeywords)
           raw == (n * 1000000) \div Len(allKeywords) + n * 100000
       IN IF raw > 1000000 THEN 1000000 ELSE raw

\* The scores of classify(): for every prompt type its score and the
\* keywords of it found in the lower-cased prompt.
KeywordScores(prompt) ==
  LET promptLower == toLowerCase(prompt.text) IN
  [t \in PromptTypeSet |->
    IF t = "unknown" THEN [score |-> 0, matchedKeywords |-> << >>]
    ELSE LET keywords == PROMPT_TYPE_MAPPING[t].keywords
             Matches(keyword) == includes(promptLower, toLowerCase(keyword))
             matched == SelectSeq(keywords, Matches)
         IN [score |-> calculateKeywordScore(matched, keywords),
             matchedKeywords |-> matched]]

\* findBestMatch: the first prompt type, in enumeration order, whose score is
\* strictly above every earlier one; unknown with score 0 when none scores.
RECURSIVE BestUpTo(_, _)
BestUpTo(scores, n) ==
  IF n = 0 THEN [promptType |-> "unknown", score |-> 0, matchedKeywords |-> << >>]
  ELSE LET before == BestUpTo(scores, n - 1)
           t == PromptTypes[n]
       IN IF t # "unknown" /\ scores[t].score > before.score
          THEN [promptType |-> t, score |-> scores[t].score,
                matchedKeywords |-> scores[t].matchedKeywords]
          ELSE before

findBestMatch(scores) == BestUpTo(scores, Len(PromptTypes))

\* HeuristicClassifier.calculateConfidence, in micro
HeuristicConfidence(bestMatch, scores) ==
  IF bestMatch.score = 0 THEN 100000
  ELSE LET otherScores == {scores[t].score :
                             t \in PromptTypeSet \ {bestMatch.promptType, "unknown"}}
           maxOtherScore == MaxOf(otherScores \cup {0})
           scoreDifference == bestMatch.score - maxOtherScore
           confidence == bestMatch.score
                         + (IF scoreDifference > 300000 THEN 200000 ELSE 0)
                         + (IF scoreDifference > 500000 THEN 100000 ELSE 0)
       IN IF confidence > 900000 THEN 900000 ELSE confidence

\* HeuristicClassifier.classify
HeuristicClassify(prompt) ==
  LET scores == KeywordScores(prompt)
      bestMatch == findBestMatch(scores)
  IN [promptType |-> bestMatch.promptType,
      confidence |-> HeuristicConfidence(bestMatch, scores),
      method |-> "heuristic",
      matchedKeywords |-> bestMatch.matchedKeywords]

\* shouldUseHeuristic
shouldUseHeuristic(confidence) == confidence >= 700000

(***************************************************************************)
(* Model classifier (src/unnamed/part_002).  A reply of the classification *)
(* backend is what the parser sees of it: whether a {...} block is found,  *)
(* whether it is JSON, and the three fields of the object.                 *)
(***************************************************************************)
\* String.prototype.toUpperCase on the category strings of the replies
toUpperCase(category) ==
  CASE category = "code" -> "CODE"
    [] category = "Qa" -> "QA"
    [] category = "creative" -> "CREATIVE"
    [] category = "summarize" -> "SUMMARIZE"
    [] category = "math_reasoning" -> "MATH_REASONING"
    [] category = "other" -> "OTHER"
    [] OTHER -> category

\* mapCategoryToPromptType with a case for MATH_REASONING
mapCategoryWithMath(category) ==
  LET categoryUpper == toUpperCase(category) IN
  CASE categoryUpper = "CODE" -> "code"
    [] categoryUpper = "SUMMARIZE" -> "summarize"
    [] categoryUpper = "QA" -> "qa"
    [] categoryUpper = "CREATIVE" -> "creative"
    [] categoryUpper = "MATH_REASONING" -> "math_reasoning"
    [] OTHER -> "unknown"

\* mapCategoryToPromptType
mapCategoryToPromptType(category) ==
  LET categoryUpper == toUpperCase(category) IN
  CASE categoryUpper = "CODE" -> "code"
    [] categoryUpper = "SUMMARIZE" -> "summarize"
    [] categoryUpper = "QA" -> "qa"
    [] categoryUpper = "CREATIVE" -> "creative"
    [] OTHER -> "unknown"

\* parseClassificationResponse: never throws; every failure is unknown / 0.1.
\* reply.confidence is the number of the reply in micro, or NaN for a value
\* that is truthy and no number ("high"): Math.min(1, "high") is NaN, and so
\* is Math.max(0, NaN).
parseClassificationResponse(reply) ==
  LET failed == [promptType |-> "unknown", confidence |-> 100000]
  IN IF reply.json # "object" THEN failed
     ELSE IF \/ ~reply.hasCategory \/ reply.category = ""
             \/ ~reply.hasConfidence \/ reply.confidence = 0
             \/ ~reply.hasReasoning
          THEN failed
          ELSE [promptType |-> mapCategoryToPromptType(reply.category),
                confidence |-> IF reply.confidence = NaN THEN NaN
                               ELSE IF reply.confidence < 0 THEN 0
                               ELSE IF reply.confidence > 1000000 THEN 1000000
                               ELSE reply.confidence]

(***************************************************************************)
(* Hybrid classifier (src/src/lib/classification/hybrid-classifier.ts)     *)
(***************************************************************************)
\* combineResults.  The model's confidence may be NaN: Math.max with a NaN is
\* NaN, NaN === x is false and NaN > 0 is false.
combineResults(heuristicResult, modelResult) ==
  IF heuristicResult.promptType = modelResult.promptType
  THEN LET maxConfidence == IF modelResult.confidence = NaN THEN NaN
                            ELSE IF heuristicResult.confidence >= modelResult.confidence
                            THEN heuristicResult.confidence ELSE modelResult.confidence
       IN [promptType |-> heuristicResult.promptType,
           confidence |-> maxConfidence,
           method |-> IF maxConfidence # NaN /\ maxConfidence = heuristicResult.confidence
                      THEN "heuristic" ELSE "model"]
  ELSE IF /\ modelResult.confidence # NaN
          /\ modelResult.confidence - heuristicResult.confidence > 0
       THEN [promptType |-> modelResult.promptType,
             confidence |-> modelResult.confidence,
             method |-> "model"]
       ELSE [promptType |-> heuristicResult.promptType,
             confidence |-> heuristicResult.confidence,
             method |-> "heuristic"]

\* classify, the heuristic adopted
HeuristicOnly(heuristicResult) ==
  [promptType |-> heuristicResult.promptType,
   confidence |-> heuristicResult.confidence,
   method |-> "heuristic",
   finalMethod |-> "heuristic_only"]

\* The catch block of classify keeping the heuristic's confidence
HeuristicFallbackNotHalved(heuristicResult) ==
  [promptType |-> heuristicResult.promptType,
   confidence |-> heuristicResult.confidence,
   method |-> "heuristic",
   finalMethod |-> "heuristic_fallback"]

\* classify, the catch block: the heuristic with its confidence halved
HeuristicFallback(heuristicResult) ==
  LET half == heuristicResult.confidence \div 2 IN
  [promptType |-> heuristicResult.promptType,
   confidence |-> IF half < 100000 THEN 100000 ELSE half,
   method |-> "heuristic",
   finalMethod |-> "heuristic_fallback"]

\* classify, the reply of the model classifier combined with the heuristic
Combined(heuristicResult, reply) ==
  LET parsed == parseClassificationResponse(reply)
      finalResult == combineResults(heuristicResult,
                                    [promptType |-> parsed.promptType,
                                     confidence |-> parsed.confidence])
  IN [promptType |-> finalResult.promptType,
      confidence |-> finalResult.confidence,
      method |-> finalResult.method,
      finalMethod |-> finalResult.method]

(***************************************************************************)
(* Backend client cache (src/src/lib/models/client-factory.ts)             *)
(***************************************************************************)
NoClient == [id |-> 0, provider |-> "", modelName |-> ""]

\* createClient: the n-th client ever created, for a registry entry
createClient(modelConfig, n) ==
  [id |-> n, provider |-> modelConfig.provider, modelName |-> modelConfig.modelName]

\* A getClient that caches the new client under the requested name only
getClientUnderOneName(cache, count, modelName) ==
  IF modelName \in DOMAIN cache /\ cache[modelName] # NoClient
  THEN [threw |-> FALSE, client |-> cache[modelName], clients |-> cache, created |-> count]
  ELSE IF modelName \notin Keys /\ modelName \notin ModelNames
       THEN [threw |-> TRUE, client |-> NoClient, clients |-> cache, created |-> count]
       ELSE LET resolvedKey == IF modelName \in Keys THEN modelName
                               ELSE KeyOfModelName(modelName)
                client == createClient(MODEL_REGISTRY[resolvedKey], count + 1)
            IN [threw |-> FALSE, client |-> client,
                clients |-> [cache EXCEPT ![modelName] = client],
                created |-> count + 1]

\* getClient: the client returned, and the cache and the number of clients
\* created afterwards; threw when the name is unknown.
getClient(cache, count, modelName) ==
  IF modelName \in DOMAIN cache /\ cache[modelName] # NoClient
  THEN [threw |-> FALSE, client |-> cache[modelName], clients |-> cache, created |-> count]
  ELSE IF modelName \notin Keys /\ modelName \notin ModelNames
       THEN [threw |-> TRUE, client |-> NoClient, clients |-> cache, created |-> count]
       ELSE LET resolvedKey == IF modelName \in Keys THEN modelName
                               ELSE KeyOfModelName(modelName)
                modelConfig == MODEL_REGISTRY[resolvedKey]
                client == createClient(modelConfig, count + 1)
            IN [threw |-> FALSE, client |-> client,
                clients |-> [n \in DOMAIN cache |->
                               IF n \in {resolvedKey, modelConfig.modelName}
                               THEN client ELSE cache[n]],
                created |-> count + 1]

(***************************************************************************)
(* Availability (src/src/lib/models/model-registry.ts)                     *)
(***************************************************************************)
\* updateModelAvailability that also restores every other flag
updateModelAvailabilityRestoring(av, modelName, isAvailable) ==
  IF modelName \in Keys
  THEN [k \in DOMAIN av |-> IF k = modelName THEN isAvailable ELSE TRUE]
  ELSE av

\* updateModelAvailability, the flags: only a registry key has a flag
updateModelAvailability(av, modelName, isAvailable) ==
  IF modelName \in Keys THEN [av EXCEPT ![modelName] = isAvailable] ELSE av

\* A failure handling that leaves the registry as it is
markModelUnavailableSkipped(av, modelName) == av

\* RoutingEngine.markModelUnavailable, the flags
markModelUnavailable(av, modelName) == updateModelAvailability(av, modelName, FALSE)

\* A reset that flips every flag
toggleAllModelAvailability(av) == [k \in DOMAIN av |-> ~av[k]]

\* resetAllModelAvailability
resetAllModelAvailability(av) == [k \in DOMAIN av |-> TRUE]

(***************************************************************************)
(* Router service (src/unnamed/part_003)                                   *)
(***************************************************************************)
maxLogs == 1000

maxResponseLength == 3000

\* costUsd of a fallback answer: 0.00015 USD
fallbackCostUsd == 3000

\* A fallback model other than the static one
OtherFallbackModel == "gemini-1.5-flash"

StaticFallbackModel == "gpt-4o-mini"

\* Math.ceil(chars / 4)
CeilQuarter(chars) == (chars + 3) \div 4

\* calculateActualCost: 0 when the name is no registry key
calculateActualCost(modelName, inputChars, outputChars) ==
  IF modelName \notin Keys THEN 0
  ELSE CeilQuarter(inputChars) * MODEL_REGISTRY[modelName].priceInputPerMillion
       + CeilQuarter(outputChars) * MODEL_REGISTRY[modelName].priceOutputPerMillion

\* RoutingEngine.calculateCostSavings: against the dearest model found under
\* its provider-native name
calculateCostSavings(actualCost, promptType) ==
  LET found == {MODEL_REGISTRY[k].modelName : k \in Keys} \cap Keys
      capable == {k \in found : promptType \in DOMAIN MODEL_REGISTRY[k].qualityPriorByType}
  IN IF capable = {} THEN 0
     ELSE LET maxCost == MaxOf({MODEL_REGISTRY[k].priceInputPerMillion : k \in capable}) * 1000
          IN IF maxCost - actualCost > 0 THEN maxCost - actualCost ELSE 0

\* String.prototype.lastIndexOf(ch, fromIndex), on the positions of ch
lastIndexOf(positions, fromIndex) ==
  LET upTo == {i \in positions : i <= fromIndex}
  IN IF upTo = {} THEN -1 ELSE MaxOf(upTo)

\* What the backend answers when it generated nothing
NoResponseGenerated == [length |-> 21, dots |-> {}, newlines |-> {}]

\* Sentence-aware truncation: the content kept up to and including the cut,
\* with '...' appended, or the content as it is.  A content is its length and
\* the indexes, from 0, of its '.' and of its '\n'; the returned text is the
\* first kept characters of the content followed by the characters of suffix.
truncate(content) ==
  LET truncationPoint == lastIndexOf(content.dots, maxResponseLength)
      fallbackPoint == lastIndexOf(content.newlines, maxResponseLength)
      cutPoint == IF truncationPoint > fallbackPoint THEN truncationPoint ELSE fallbackPoint
  IN IF content.length > maxResponseLength /\ cutPoint * 10 > maxResponseLength * 8
     THEN [content |-> content, kept |-> cutPoint + 1, suffix |-> <<".", ".", ".">>,
           wasTruncated |-> TRUE]
     ELSE [content |-> content, kept |-> content.length, suffix |-> << >>,
           wasTruncated |-> FALSE]

\* logRequest keeping the first maxLogs entries
logRequestKeepingOldest(logs, log) ==
  LET pushed == Append(logs, log)
  IN IF Len(pushed) > maxLogs THEN SubSeq(pushed, 1, maxLogs) ELSE pushed

\* logRequest: push, then keep the last maxLogs entries
logRequest(logs, log) ==
  LET pushed == Append(logs, log)
  IN IF Len(pushed) > maxLogs
     THEN SubSeq(pushed, Len(pushed) - maxLogs + 1, Len(pushed))
     ELSE pushed

\* error.message of a backend client's error (BaseModelClientImpl.handleError)
ClientErrorMessage(client, reason) ==
  <<"[", client.provider, ":", client.modelName, "] generateResponse: ", reason>>

\* A routing-failed message that drops the error it is given
RoutingFailedUnknown(errorMessage) == <<"Routing failed: ", "Unknown routing error">>

\* `Routing failed: ${errorMessage || 'Unknown routing error'}`
RoutingFailedMessage(errorMessage) ==
  <<"Routing failed: ">> \o (IF errorMessage = << >> THEN <<"Unknown routing error">>
                             ELSE errorMessage)

\* RoutingEngine.initializeMetrics
initializeMetrics ==
  [totalRequests |-> 0, totalCost |-> 0, averageLatency |-> 0, modelUsage |-> << >>,
   promptTypeDistribution |-> [t \in PromptTypeSet |-> 0], costSavings |-> 0]

\* RoutingEngine.updateMetrics
updateMetrics(m, promptType) ==
  [m EXCEPT !.totalRequests = @ + 1, !.promptTypeDistribution[promptType] = @ + 1]

(***************************************************************************)
(* Inputs                                                                  *)
(***************************************************************************)
\* Concurrent routePrompt calls on the one RouterService
NumSlots == 2

\* routePrompt calls started in one behaviour
MaxCalls == 2

Slots == 1..NumSlots

\* Blanks that make a prompt longer than four times the largest context window
OversizePad == 4200000

\* Blanks that make a prompt of 127,900 tokens: 100 tokens less than the
\* context window of gpt-4o-mini and of gpt-oss-20b
LongPad == 511588

\* "Write code: a function", "Good morning", a prompt too long for every
\* context window, "x+y", and a prompt that nearly fills the smallest
\* context window
Prompts ==
  [code |-> [text |-> <<"W", "r", "i", "t", "e", " ", "c", "o", "d", "e", ":", " ", "a", " ", "f", "u", "n", "c", "t", "i", "o", "n">>, pad |-> 0],
   greeting |-> [text |-> <<"G", "o", "o", "d", " ", "m", "o", "r", "n", "i", "n", "g">>, pad |-> 0],
   oversize |-> [text |-> <<"G", "o", "o", "d", " ", "m", "o", "r", "n", "i", "n", "g">>, pad |-> OversizePad],
   math |-> [text |-> <<"x", "+", "y">>, pad |-> 0],
   sort |-> [text |-> <<"W", "r", "i", "t", "e", " ", "a", " ", "P", "y", "t", "h", "o", "n", " ", "f", "u", "n", "c", "t", "i", "o", "n", " ", "t", "o", " ", "s", "o", "r", "t", " ", "a", " ", "l", "i", "s", "t">>, pad |-> 0],
   long |-> [text |-> <<"G", "o", "o", "d", " ", "m", "o", "r", "n", "i", "n", "g">>, pad |-> LongPad]]

PromptIds == DOMAIN Prompts

\* The heuristic classifier's result for each prompt
HeuristicResults == [p \in PromptIds |-> HeuristicClassify(Prompts[p])]

\* The routePrompt calls made: the code prompt under every preset, the other
\* prompts under the default preset, and one call that finds the environment
\* configuration invalid.
Requests ==
  {r \in [prompt : {"code", "greeting", "oversize"}, priorityPreset : PriorityPresets,
          envOk : BOOLEAN] :
     \/ r.prompt = "code" /\ (r.envOk \/ r.priorityPreset = "balanced")
     \/ r.priorityPreset = "balanced" /\ r.envOk}

\* What the classification backend may answer
Replies ==
  {[json |-> "object", hasCategory |-> TRUE, category |-> "summarize",
    hasConfidence |-> TRUE, confidence |-> 900000, hasReasoning |-> TRUE]}

\* What a backend may generate, with the time in 10 ms from the start of
\* routePrompt to the arrival of the answer
Contents ==
  {[length |-> 40, dots |-> {40}, newlines |-> {}, latencyMs |-> 120]}

\* Why a backend call may fail
FailureReasons == {"timeout"}

(***************************************************************************)
(* State                                                                   *)
(***************************************************************************)
VARIABLES
  avail,        \* MODEL_REGISTRY[k].isAvailable, per registry key
  clients,      \* ModelClientFactory.clients, per name; NoClient when absent
  created,      \* backend clients created so far
  metrics,      \* RoutingEngine.metrics
  requestLogs,  \* RouterService.requestLogs
  calls,        \* the routePrompt calls in flight, per slot
  started,      \* routePrompt calls started in this behaviour
  appended,     \* entries ever pushed to requestLogs
  cleared,      \* value of appended when requestLogs was last emptied
  failed        \* names passed to markModelUnavailable since the last reset

vars == <<avail, clients, created, metrics, requestLogs, calls, started, appended,
          cleared, failed>>

NoDecision == [selectedModel |-> ""]

NoResult == [kind |-> "none"]

NoError == << >>

\* A slot with no call in it.  filterAvail is the registry as the candidate
\* filter of the call read it, invokeAvail the registry as it was when the
\* selected model was asked, invoked the models asked to answer the user's
\* prompt, logged the entries the call pushed.
IdleCall ==
  [pc |-> "idle", prompt |-> "", priorityPreset |-> "",
   promptType |-> "unknown", classificationConfidence |-> 500000,
   classificationMethod |-> "", routingDecision |-> NoDecision,
   filterAvail |-> << >>, invokeAvail |-> << >>, client |-> NoClient,
   errorMessage |-> NoError,
   invoked |-> << >>, logged |-> 0, result |-> NoResult]

Init ==
  /\ avail = [k \in Keys |-> TRUE]
  /\ clients = [n \in Names |-> NoClient]
  /\ created = 0
  /\ metrics = initializeMetrics
  /\ requestLogs = << >>
  /\ calls = [c \in Slots |-> IdleCall]
  /\ started = 0
  /\ appended = 0
  /\ cleared = 0
  /\ failed = {}

\* getServerEnv of @/config/env, read by getConfidenceThreshold: it yields
\* the validated configuration, or raises when the environment holds a value
\* outside its range (CLASSIFICATION_CONFIDENCE_THRESHOLD in [0, 1], default
\* 0.6) or lacks a required one.
getServerEnv(envOk) ==
  [threw |-> ~envOk, CLASSIFICATION_CONFIDENCE_THRESHOLD |-> 600000]

(***************************************************************************)
(* routePrompt, step 1: classification                                     *)
(***************************************************************************)
\* The call with its classification result stored
Classified(call, result) ==
  [call EXCEPT !.pc = "classified",
               !.promptType = result.promptType,
               !.classificationConfidence = result.confidence,
               !.classificationMethod = result.finalMethod]

\* routePrompt is called with one of the given requests;
\* HybridClassifier.classify runs up to its first backend call.
\* request.envOk: the environment of the server is a valid configuration.
StartWith(c, requests) ==
  /\ calls[c].pc = "idle"
  /\ \A d \in 1..(c - 1) : calls[d].pc # "idle"   \* the lowest free slot
  /\ started < MaxCalls
  /\ \E request \in requests :
       LET call == [IdleCall EXCEPT !.prompt = request.prompt,
                                   !.priorityPreset = request.priorityPreset]
           heuristicResult == HeuristicResults[request.prompt]
           got == getClient(clients, created, StaticFallbackModel)
       IN IF getServerEnv(request.envOk).threw
          THEN /\ calls' = [calls EXCEPT ![c] = Classified(call, HeuristicFallback(heuristicResult))]
               /\ UNCHANGED <<clients, created>>
          ELSE IF shouldUseHeuristic(heuristicResult.confidence)
          THEN /\ calls' = [calls EXCEPT ![c] = Classified(call, HeuristicOnly(heuristicResult))]
               /\ UNCHANGED <<clients, created>>
          ELSE /\ calls' = [calls EXCEPT ![c] = [call EXCEPT !.pc = "classifying"]]
               /\ clients' = got.clients
               /\ created' = got.created
  /\ started' = started + 1
  /\ UNCHANGED <<avail, metrics, requestLogs, appended, cleared, failed>>

Start(c) == StartWith(c, Requests)

\* The classification backend answers with one of the given replies
ClassifyReplyWith(c, replies) ==
  /\ calls[c].pc = "classifying"
  /\ \E reply \in replies :
       calls' = [calls EXCEPT ![c] =
                   Classified(@, Combined(HeuristicResults[@.prompt], reply))]
  /\ UNCHANGED <<avail, clients, created, metrics, requestLogs, started, appended,
                 cleared, failed>>

ClassifyReply(c) == ClassifyReplyWith(c, Replies)

\* The classification backend fails: classify falls back on the heuristic
ClassifyFail(c) ==
  /\ calls[c].pc = "classifying"
  /\ calls' = [calls EXCEPT ![c] =
                 Classified(@, HeuristicFallback(HeuristicResults[@.prompt]))]
  /\ UNCHANGED <<avail, clients, created, metrics, requestLogs, started, appended,
                 cleared, failed>>

(***************************************************************************)
(* routePrompt, steps 3 to 10, and handleRoutingError                      *)
(***************************************************************************)
\* An error handling that asks the model that failed once more
HandleRoutingErrorRetrying(call, errorMessage, got) ==
  [call EXCEPT !.pc = "generating", !.errorMessage = errorMessage]

\* handleRoutingError up to its backend call: the message of the error is
\* kept and the static fallback model is asked to answer the prompt.
HandleRoutingError(call, errorMessage, got) ==
  [call EXCEPT !.pc = "fallback",
               !.errorMessage = errorMessage,
               !.client = got.client,
               !.invoked = Append(@, got.client.modelName)]

\* RoutingEngine.routeRequest, and for an empty candidate list the error it
\* throws, handled at once.
Decide(c) ==
  /\ calls[c].pc = "classified"
  /\ LET call == calls[c]
         estimatedTokens == CeilQuarter(PromptLength(Prompts[call.prompt]))
         availableModels == getAvailableModels(call.promptType, estimatedTokens, avail)
         got == getClient(clients, created, StaticFallbackModel)
     IN /\ metrics' = updateMetrics(metrics, call.promptType)
        /\ IF Len(availableModels) = 0
           THEN /\ calls' = [calls EXCEPT ![c] =
                               HandleRoutingError(
                                 [call EXCEPT !.filterAvail = avail],
                                 <<"No available models for prompt type: ", call.promptType>>,
                                 got)]
                /\ clients' = got.clients
                /\ created' = got.created
           ELSE /\ calls' = [calls EXCEPT ![c] =
                               [call EXCEPT !.pc = "decided",
                                            !.filterAvail = avail,
                                            !.routingDecision =
                                               MakeDecision(availableModels, call.priorityPreset,
                                                            call.promptType, estimatedTokens)]]
                /\ UNCHANGED <<clients, created>>
  /\ UNCHANGED <<avail, requestLogs, started, appended, cleared, failed>>

\* Steps 5 and 6 looking at the flag of the selected model again: a model
\* that is unavailable by now is not asked, the decision is taken anew
InvokeRechecking(c) ==
  /\ calls[c].pc = "decided"
  /\ LET got == getClient(clients, created, calls[c].routingDecision.selectedModel)
     IN IF avail[KeyOfModelName(calls[c].routingDecision.selectedModel)]
        THEN /\ ~got.threw
             /\ calls' = [calls EXCEPT ![c] =
                            [calls[c] EXCEPT !.pc = "generating",
                                             !.invokeAvail = avail,
                                             !.client = got.client,
                                             !.invoked = Append(@, got.client.modelName)]]
             /\ clients' = got.clients
             /\ created' = got.created
        ELSE /\ calls' = [calls EXCEPT ![c] =
                            [calls[c] EXCEPT !.pc = "classified",
                                             !.routingDecision = NoDecision]]
             /\ UNCHANGED <<clients, created>>
  /\ UNCHANGED <<avail, metrics, requestLogs, started, appended, cleared, failed>>

\* Steps 5 and 6: the client of the selected model is asked to answer
Invoke(c) ==
  /\ calls[c].pc = "decided"
  /\ LET got == getClient(clients, created, calls[c].routingDecision.selectedModel)
     IN /\ ~got.threw
        /\ calls' = [calls EXCEPT ![c] =
                       [calls[c] EXCEPT !.pc = "generating",
                                        !.invokeAvail = avail,
                                        !.client = got.client,
                                        !.invoked = Append(@, got.client.modelName)]]
        /\ clients' = got.clients
        /\ created' = got.created
  /\ UNCHANGED <<avail, metrics, requestLogs, started, appended, cleared, failed>>

\* The entry of a request.  generateRequestId() is unique per entry: the
\* model numbers the entries in the order they are pushed.
RequestLog(id, call, selectedModel, provider, costUsd, latencyMs, qualityScore, method, confidence, error) ==
  [id |-> id,
   prompt |-> call.prompt,
   promptType |-> call.promptType,
   selectedModel |-> selectedModel,
   provider |-> provider,
   costUsd |-> costUsd,
   latencyMs |-> latencyMs,
   qualityScore |-> qualityScore,
   classificationMethod |-> method,
   classificationConfidence |-> confidence,
   priorityPreset |-> call.priorityPreset,
   error |-> error]

\* The selected model answers with one of the given contents: steps 7 to 10
PrimaryOkWith(c, contents) ==
  /\ calls[c].pc = "generating"
  /\ \E content \in contents :
       LET call == calls[c]
           routingDecision == call.routingDecision
           actualCost == calculateActualCost(routingDecision.selectedModel,
                                             PromptLength(Prompts[call.prompt]),
                                             content.length)
           costSavings == calculateCostSavings(actualCost, call.promptType)
           finalResponse == truncate(IF content.length = 0 THEN NoResponseGenerated
                                     ELSE content)
       IN /\ requestLogs' = logRequest(requestLogs,
                              RequestLog(appended + 1, call, routingDecision.selectedModel,
                                         call.client.provider, actualCost,
                                         content.latencyMs,
                                         routingDecision.confidence,
                                         call.classificationMethod,
                                         call.classificationConfidence, NoError))
          /\ calls' = [calls EXCEPT ![c] =
                         [call EXCEPT !.pc = "returned",
                                      !.logged = @ + 1,
                                      !.result =
                                         [kind |-> "response",
                                          response |-> finalResponse,
                                          modelUsed |-> routingDecision.selectedModel,
                                          promptType |-> call.promptType,
                                          classificationConfidence |-> call.classificationConfidence,
                                          routingDecision |-> routingDecision,
                                          actualCost |-> actualCost,
                                          costSavings |-> costSavings,
                                          wasTruncated |-> finalResponse.wasTruncated]]]
  /\ appended' = appended + 1
  /\ UNCHANGED <<avail, clients, created, metrics, started, cleared, failed>>

PrimaryOk(c) == PrimaryOkWith(c, Contents)

\* The selected model fails: it is marked unavailable and the error is
\* handed to handleRoutingError.
PrimaryFailWith(c, reasons) ==
  /\ calls[c].pc = "generating"
  /\ \E reason \in reasons :
       LET call == calls[c]
           got == getClient(clients, created, StaticFallbackModel)
       IN /\ avail' = markModelUnavailable(avail, call.routingDecision.selectedModel)
          /\ failed' = failed \cup {call.routingDecision.selectedModel}
          /\ calls' = [calls EXCEPT ![c] =
                         HandleRoutingError(call, ClientErrorMessage(call.client, reason), got)]
          /\ clients' = got.clients
          /\ created' = got.created
  /\ UNCHANGED <<metrics, requestLogs, started, appended, cleared>>

PrimaryFail(c) == PrimaryFailWith(c, FailureReasons)

\* classifiedConfidence || 0.5
OrHalf(confidence) == IF confidence = 0 \/ confidence = NaN THEN 500000 ELSE confidence

\* The decision a fallback answer reports
FallbackDecision(call) ==
  [selectedModel |-> StaticFallbackModel,
   provider |-> call.client.provider,
   promptType |-> call.promptType,
   confidence |-> 500000,
   estimatedCost |-> fallbackCostUsd,
   score |-> 0,
   priorityWeights |-> [quality |-> 30, cost |-> 50, latency |-> 20],
   alternatives |-> << >>]

\* The static fallback model answers with one of the given contents: the
\* request is logged with the error that led here and the answer is returned.
FallbackOkWith(c, contents) ==
  /\ calls[c].pc = "fallback"
  /\ \E content \in contents :
       LET call == calls[c]
           finalFallbackResponse == truncate(content)
       IN /\ requestLogs' = logRequest(requestLogs,
                              RequestLog(appended + 1, call, StaticFallbackModel,
                                         call.client.provider,
                                         fallbackCostUsd, content.latencyMs,
                                         500000, "fallback",
                                         OrHalf(call.classificationConfidence),
                                         call.errorMessage))
          /\ calls' = [calls EXCEPT ![c] =
                         [call EXCEPT !.pc = "returned",
                                      !.logged = @ + 1,
                                      !.result =
                                         [kind |-> "response",
                                          response |-> finalFallbackResponse,
                                          modelUsed |-> "gpt-4o-mini (fallback)",
                                          promptType |-> call.promptType,
                                          classificationConfidence |->
                                             OrHalf(call.classificationConfidence),
                                          routingDecision |-> FallbackDecision(call),
                                          actualCost |-> fallbackCostUsd,
                                          costSavings |-> 0,
                                          wasTruncated |-> finalFallbackResponse.wasTruncated]]]
  /\ appended' = appended + 1
  /\ UNCHANGED <<avail, clients, created, metrics, started, cleared, failed>>

FallbackOk(c) == FallbackOkWith(c, Contents)

\* A failure of the static fallback model that marks it unavailable
FallbackFailMarking(c, reasons) ==
  /\ calls[c].pc = "fallback"
  /\ \E reason \in reasons :
       LET call == calls[c]
       IN calls' = [calls EXCEPT ![c] =
                      [call EXCEPT !.pc = "threw",
                                   !.result =
                                      [kind |-> "error",
                                       message |-> RoutingFailedMessage(call.errorMessage),
                                       fallbackError |-> ClientErrorMessage(call.client, reason)]]]
  /\ avail' = markModelUnavailable(avail, StaticFallbackModel)
  /\ UNCHANGED <<clients, created, metrics, requestLogs, started, appended, cleared, failed>>

\* The static fallback model fails too: its error is dropped and the call
\* throws with the message of the first error.
FallbackFailWith(c, reasons) ==
  /\ calls[c].pc = "fallback"
  /\ \E reason \in reasons :
       LET call == calls[c]
       IN calls' = [calls EXCEPT ![c] =
                      [call EXCEPT !.pc = "threw",
                                   !.result =
                                      [kind |-> "error",
                                       message |-> RoutingFailedMessage(call.errorMessage),
                                       fallbackError |-> ClientErrorMessage(call.client, reason)]]]
  /\ UNCHANGED <<avail, clients, created, metrics, requestLogs, started, appended,
                 cleared, failed>>

FallbackFail(c) == FallbackFailWith(c, FailureReasons)

\* The caller has the response or the error: the slot is free again
Finish(c) ==
  /\ calls[c].pc \in {"returned", "threw"}
  /\ calls' = [calls EXCEPT ![c] = IdleCall]
  /\ UNCHANGED <<avail, clients, created, metrics, requestLogs, started, appended,
                 cleared, failed>>

(***************************************************************************)
(* The other operations (src/unnamed/part_000, src/unnamed/part_003)       *)
(***************************************************************************)
\* PUT /api/route: only the action "reset" does anything
PUT ==
  \E action \in {"reset", "other"} :
    /\ avail' = IF action = "reset" THEN resetAllModelAvailability(avail) ELSE avail
    /\ failed' = IF action = "reset" THEN {} ELSE failed
    /\ UNCHANGED <<clients, created, metrics, requestLogs, calls, started, appended, cleared>>

\* The body of GET /api/route
ModelStatus(av) ==
  [i \in 1..Len(RegistryKeys) |->
     [name |-> RegistryKeys[i],
      modelName |-> MODEL_REGISTRY[RegistryKeys[i]].modelName,
      provider |-> MODEL_REGISTRY[RegistryKeys[i]].provider,
      isAvailable |-> av[RegistryKeys[i]]]]

\* GET /api/route reads the registry
GET ==
  /\ Len(ModelStatus(avail)) = Len(RegistryKeys)
  /\ UNCHANGED vars

\* RouterService.getMetrics: totalRequests is the length of the buffer, the
\* rest comes from the engine
RouterMetrics(logs, m) ==
  [totalRequests |-> Len(logs),
   totalCost |-> m.totalCost,
   averageLatency |-> m.averageLatency,
   modelUsage |-> m.modelUsage,
   promptTypeDistribution |-> m.promptTypeDistribution,
   confidentClassifications |->
      Cardinality({i \in 1..Len(logs) : logs[i].classificationConfidence > 600000})]

\* getMetrics reads the buffer and the engine's metrics
getMetrics ==
  /\ RouterMetrics(requestLogs, metrics).totalRequests <= maxLogs
  /\ UNCHANGED vars

\* RouterService.getRecentLogs: the last limit entries, newest first
RecentLogs(logs, limit) ==
  LET n == IF Len(logs) < limit THEN Len(logs) ELSE limit
  IN [i \in 1..n |-> logs[Len(logs) + 1 - i]]

\* getRecentLogs with its default limit reads the buffer
getRecentLogs ==
  /\ Len(RecentLogs(requestLogs, 50)) <= 50
  /\ UNCHANGED vars

\* RouterService.resetMetrics
resetMetrics ==
  /\ metrics' = initializeMetrics
  /\ requestLogs' = << >>
  /\ cleared' = appended
  /\ UNCHANGED <<avail, clients, created, calls, started, appended, failed>>

Next ==
  \/ \E c \in Slots :
       \/ Start(c) \/ ClassifyReply(c) \/ ClassifyFail(c) \/ Decide(c) \/ Invoke(c)
       \/ PrimaryOk(c) \/ PrimaryFail(c) \/ FallbackOk(c) \/ FallbackFail(c) \/ Finish(c)
  \/ PUT
  \/ GET
  \/ getMetrics
  \/ getRecentLogs
  \/ resetMetrics

Spec == Init /\ [][Next]_vars

(***************************************************************************)
(* A RouterService whose buffer is nearly full.  The state reached by n    *)
(* routePrompt calls, one after the other, for the code prompt under the   *)
(* default preset, each answered by the selected model.                    *)
(***************************************************************************)
PrefillRequest == [prompt |-> "code", priorityPreset |-> "balanced", envOk |-> TRUE]

\* The call once classified
PrefillCall ==
  Classified([IdleCall EXCEPT !.prompt = PrefillRequest.prompt,
                              !.priorityPreset = PrefillRequest.priorityPreset],
             HeuristicOnly(HeuristicResults[PrefillRequest.prompt]))

\* Its routing decision, with every model available
PrefillDecision ==
  LET estimatedTokens == CeilQuarter(PromptLength(Prompts[PrefillCall.prompt]))
  IN MakeDecision(getAvailableModels(PrefillCall.promptType, estimatedTokens,
                                     [k \in Keys |-> TRUE]),
                  PrefillCall.priorityPreset, PrefillCall.promptType, estimatedTokens)

\* The client cache after the first of the calls
PrefillClients == getClient([n \in Names |-> NoClient], 0, PrefillDecision.selectedModel)

\* The entry each of the calls pushes, but for its id
PrefillEntry ==
  LET content == CHOOSE content \in Contents : TRUE
  IN RequestLog(0, PrefillCall, PrefillDecision.selectedModel,
                PrefillClients.client.provider,
                calculateActualCost(PrefillDecision.selectedModel,
                                    PromptLength(Prompts[PrefillCall.prompt]),
                                    content.length),
                content.latencyMs,
                PrefillDecision.confidence, PrefillCall.classificationMethod,
                PrefillCall.classificationConfidence, NoError)

InitLog ==
  \E n \in {maxLogs - 1, maxLogs} :
    /\ avail = [k \in Keys |-> TRUE]
    /\ clients = PrefillClients.clients
    /\ created = PrefillClients.created
    /\ metrics = [initializeMetrics EXCEPT
                    !.totalRequests = n,
                    !.promptTypeDistribution[PrefillCall.promptType] = n]
    /\ requestLogs = [i \in 1..n |-> [PrefillEntry EXCEPT !.id = i]]
    /\ calls = [c \in Slots |-> IdleCall]
    /\ started = 0
    /\ appended = n
    /\ cleared = 0
    /\ failed = {}

\* The calls made on the nearly full buffer
LogRequests == {r \in Requests : r.priorityPreset = "balanced" /\ r.envOk /\ r.prompt # "greeting"}

LogStart(c) == StartWith(c, LogRequests)

NextLog ==
  \/ \E c \in Slots :
       \/ LogStart(c) \/ Decide(c) \/ Invoke(c)
       \/ PrimaryOk(c) \/ PrimaryFail(c) \/ FallbackOk(c) \/ FallbackFail(c) \/ Finish(c)
  \/ getRecentLogs
  \/ resetMetrics

SpecLog == InitLog /\ [][NextLog]_vars

(***************************************************************************)
(* The registry operations called directly, around one routePrompt call.   *)
(***************************************************************************)
\* RoutingEngine.markModelUnavailable called for a registry key
MarkUnavailable ==
  \E k \in Keys :
    /\ avail' = markModelUnavailable(avail, k)
    /\ failed' = failed \cup {k}
    /\ UNCHANGED <<clients, created, metrics, requestLogs, calls, started, appended, cleared>>

\* The calls made: the code prompt under every preset
RegistryRequests == {r \in Requests : r.prompt = "code" /\ r.envOk}

RegistryStart == started = 0 /\ StartWith(1, RegistryRequests)

NextRegistry ==
  \/ MarkUnavailable
  \/ PUT
  \/ GET
  \/ RegistryStart
  \/ Decide(1) \/ Invoke(1) \/ PrimaryOk(1) \/ PrimaryFail(1)
  \/ FallbackOk(1) \/ FallbackFail(1) \/ Finish(1)

SpecRegistry == Init /\ [][NextRegistry]_vars

(***************************************************************************)
(* The classifiers, over more prompts and more replies of the              *)
(* classification backend, in calls that the selected model answers.       *)
(***************************************************************************)
\* The calls made, all with a valid environment configuration: a prompt the
\* heuristic is sure of (code), one it knows nothing of (greeting) and one it
\* is unsure of (math)
ClassifyRequests ==
  [prompt : {"code", "greeting", "math", "sort"}, priorityPreset : {"balanced"}, envOk : {TRUE}]

\* What the classification backend may answer: a category of the taxonomy, a
\* category outside it, a mixed-case category with a confidence above 1, a
\* confidence that is no number, a negative confidence, the confidence 0, and
\* no JSON at all
ClassifyReplies ==
  {[json |-> "object", hasCategory |-> TRUE, category |-> "CODE",
    hasConfidence |-> TRUE, confidence |-> 850000, hasReasoning |-> TRUE],
   [json |-> "object", hasCategory |-> TRUE, category |-> "MATH_REASONING",
    hasConfidence |-> TRUE, confidence |-> 950000, hasReasoning |-> TRUE],
   [json |-> "object", hasCategory |-> TRUE, category |-> "Qa",
    hasConfidence |-> TRUE, confidence |-> 1500000, hasReasoning |-> TRUE],
   [json |-> "object", hasCategory |-> TRUE, category |-> "other",
    hasConfidence |-> TRUE, confidence |-> NaN, hasReasoning |-> TRUE],
   [json |-> "object", hasCategory |-> TRUE, category |-> "creative",
    hasConfidence |-> TRUE, confidence |-> -500000, hasReasoning |-> TRUE],
   [json |-> "object", hasCategory |-> TRUE, category |-> "code",
    hasConfidence |-> TRUE, confidence |-> 0, hasReasoning |-> TRUE],
   [json |-> "none", hasCategory |-> FALSE, category |-> "",
    hasConfidence |-> FALSE, confidence |-> 0, hasReasoning |-> FALSE]}

ClassifyStart(c) == StartWith(c, ClassifyRequests)

ClassifyAnswer(c) == ClassifyReplyWith(c, ClassifyReplies)

\* error.message of the TypeError of reading prompt.length
NoLengthMessage == <<"Cannot read properties of undefined (reading 'length')">>

\* routePrompt is called with a prompt that is no string: classify reads
\* prompt.length before its try block and throws, routePrompt catches the
\* error with promptType UNKNOWN and classificationConfidence 0.5, as they
\* were initialised, and hands it to handleRoutingError.
ClassifyRaise(c) ==
  /\ calls[c].pc = "idle"
  /\ \A d \in 1..(c - 1) : calls[d].pc # "idle"
  /\ started < MaxCalls
  /\ LET call == [IdleCall EXCEPT !.prompt = Undefined, !.priorityPreset = "balanced"]
         got == getClient(clients, created, StaticFallbackModel)
     IN /\ calls' = [calls EXCEPT ![c] = HandleRoutingError(call, NoLengthMessage, got)]
        /\ clients' = got.clients
        /\ created' = got.created
  /\ started' = started + 1
  /\ UNCHANGED <<avail, metrics, requestLogs, appended, cleared, failed>>

NextClassify ==
  \E c \in Slots :
    \/ ClassifyStart(c) \/ ClassifyRaise(c) \/ ClassifyAnswer(c) \/ ClassifyFail(c)
    \/ Decide(c) \/ Invoke(c) \/ PrimaryOk(c) \/ FallbackOk(c) \/ FallbackFail(c)
    \/ Finish(c)

SpecClassify == Init /\ [][NextClassify]_vars

(***************************************************************************)
(* The routing engine over every set of candidates: one routePrompt call   *)
(* after any models were marked unavailable, for a short and for a long    *)
(* prompt under every preset.                                              *)
(***************************************************************************)
\* The calls made: the code prompt, which the heuristic classifies, and the
\* long prompt, which the model classifier classifies or fails to
ScoringRequests ==
  [prompt : {"code", "long"}, priorityPreset : PriorityPresets, envOk : {TRUE}]

ScoringStart == started = 0 /\ StartWith(1, ScoringRequests)

NextScoring ==
  \/ MarkUnavailable
  \/ ScoringStart
  \/ ClassifyReply(1) \/ ClassifyFail(1)
  \/ Decide(1) \/ Invoke(1) \/ PrimaryOk(1) \/ PrimaryFail(1)
  \/ FallbackOk(1) \/ FallbackFail(1) \/ Finish(1)

SpecScoring == Init /\ [][NextScoring]_vars

(***************************************************************************)
(* Truncation: calls, one after the other, answered by the selected model  *)
(* or by the fallback with texts around the limit of 3000 characters.      *)
(***************************************************************************)
\* What a backend may generate: nothing; a text of exactly 3000 characters;
\* longer texts whose last '.' or '\n' up to index 3000 is at 3000, at 2999,
\* at 2401, at 2400 (no good break point), a '\n' after an early '.', and a
\* text whose only '.' comes after index 3000
TruncateContents ==
  {[length |-> 0, dots |-> {}, newlines |-> {}, latencyMs |-> 120],
   [length |-> 3000, dots |-> {2999}, newlines |-> {}, latencyMs |-> 120],
   [length |-> 3001, dots |-> {3000}, newlines |-> {}, latencyMs |-> 120],
   [length |-> 3500, dots |-> {2999, 3200}, newlines |-> {}, latencyMs |-> 120],
   [length |-> 5000, dots |-> {2401}, newlines |-> {}, latencyMs |-> 120],
   [length |-> 5000, dots |-> {2400}, newlines |-> {}, latencyMs |-> 120],
   [length |-> 5000, dots |-> {100}, newlines |-> {2700, 3500}, latencyMs |-> 120],
   [length |-> 5000, dots |-> {3001}, newlines |-> {}, latencyMs |-> 120]}

\* The calls made: the code prompt under the default and the cost preset
TruncateRequests == {r \in Requests : r.prompt = "code" /\ r.envOk
                                      /\ r.priorityPreset \in {"balanced", "cost"}}

TruncateStart == StartWith(1, TruncateRequests)

TruncatePrimaryOk == PrimaryOkWith(1, TruncateContents)

TruncateFallbackOk == FallbackOkWith(1, TruncateContents)

NextTruncate ==
  \/ TruncateStart
  \/ Decide(1) \/ Invoke(1)
  \/ TruncatePrimaryOk \/ PrimaryFail(1)
  \/ TruncateFallbackOk \/ FallbackFail(1)
  \/ Finish(1)

SpecTruncate == Init /\ [][NextTruncate]_vars

(***************************************************************************)
(* Properties                                                              *)
(***************************************************************************)
\* The call has a routing decision
HasDecision(call) == call.routingDecision.selectedModel # ""

\* The registry key of the model the call's decision selected
SelectedKey(call) == KeyOfModelName(call.routingDecision.selectedModel)

\* routePrompt has finished in the slot
Finished(call) == call.pc \in {"returned", "threw"}

\* The generate call of the selected model failed in this call
PrimaryFailed(call) == HasDecision(call) /\ call.errorMessage # NoError

\* C1: when routePrompt has finished after the generate call of its selected
\* model failed, and availability was not reset since that failure, the
\* registry flag of that model is false, whatever the model.
C1_FailedModelIsUnavailable ==
  \A c \in Slots :
    (/\ Finished(calls[c])
     /\ PrimaryFailed(calls[c])
     /\ calls[c].routingDecision.selectedModel \in failed)
    => avail[SelectedKey(calls[c])] = FALSE

\* The models a decision names: the selected one and the alternatives
DecisionModels(decision) ==
  {decision.selectedModel}
    \cup {decision.alternatives[i].modelName : i \in 1..Len(decision.alternatives)}

\* C2: a routing decision never selects a registry key that was marked
\* unavailable since the last reset of availability, and it ranks every key
\* that was not, so that after a reset every key can be selected again.
C2_MarkedKeyNotSelected ==
  [][\A c \in Slots :
       (calls[c].pc = "classified" /\ calls'[c].pc = "decided")
       => /\ SelectedKey(calls'[c]) \notin (failed \cap Keys)
          /\ DecisionModels(calls'[c].routingDecision)
               = {MODEL_REGISTRY[k].modelName : k \in Keys \ failed}]_vars

\* C2 happens: under the cost preset, which selects gpt-oss-20b when it may,
\* a decision is made after gpt-oss-20b was marked unavailable.
C2_Witness ==
  \E c \in Slots :
    /\ calls[c].pc = "decided"
    /\ calls[c].priorityPreset = "cost"
    /\ calls[c].filterAvail["gpt-oss-20b"] = FALSE
    /\ "gpt-oss-20b" \in failed

\* C3: a routePrompt call asks at most two models to answer the prompt: first
\* the model its decision selected, if it has a decision, and then, only
\* after an error, gpt-4o-mini.
C3_AtMostTwoInvocations ==
  \A c \in Slots :
    LET call == calls[c]
        selected == <<call.routingDecision.selectedModel>>
    IN /\ Len(call.invoked) <= 2
       /\ IF HasDecision(call)
          THEN call.invoked \in {<< >>, selected, selected \o <<"gpt-4o-mini">>}
          ELSE call.invoked \in {<< >>, <<"gpt-4o-mini">>}
       /\ (Len(call.invoked) = 2 \/ (Len(call.invoked) = 1 /\ ~HasDecision(call)))
          => call.errorMessage # NoError

\* C3 happens: a second invocation went to gpt-4o-mini although the decision
\* named another fallback.
C3_Witness ==
  \E c \in Slots :
    /\ Len(calls[c].invoked) = 2
    /\ calls[c].routingDecision.fallbackModel \notin {Undefined, "gpt-4o-mini"}
    /\ calls[c].routingDecision.selectedModel # "gpt-4o-mini"

\* C4: the two models a routePrompt call asks to answer are different models.
C4_NoModelInvokedTwice ==
  \A c \in Slots :
    Len(calls[c].invoked) = 2 => calls[c].invoked[1] # calls[c].invoked[2]

\* The message of the first error of a call: the selected model's, or the
\* engine's when it found no candidate
OriginalErrors(call) ==
  IF HasDecision(call)
  THEN {ClientErrorMessage([provider |-> call.routingDecision.provider,
                            modelName |-> call.routingDecision.selectedModel], reason) :
          reason \in FailureReasons}
  ELSE {<<"No available models for prompt type: ", call.promptType>>}

\* C5: a routePrompt call whose fallback failed too ends with an error, not a
\* response, and the message of the error is "Routing failed: " followed by
\* the message of the call's first error.
C5_OriginalErrorReported ==
  \A c \in Slots :
    calls[c].pc = "threw"
    => /\ calls[c].result.kind = "error"
       /\ \E original \in OriginalErrors(calls[c]) :
            calls[c].result.message = <<"Routing failed: ">> \o original

\* C5 happens: the selected model and then the fallback failed, with
\* different messages.
C5_Witness ==
  \E c \in Slots :
    /\ calls[c].pc = "threw"
    /\ PrimaryFailed(calls[c])
    /\ calls[c].result.fallbackError \notin OriginalErrors(calls[c])

\* C6: a routePrompt call that has finished, with a response or with an
\* error, has pushed exactly one entry to the buffer.
C6_OneEntryPerCall ==
  \A c \in Slots : Finished(calls[c]) => calls[c].logged = 1

\* C7: the buffer holds at most 1000 entries, they are the last entries
\* pushed since the buffer was emptied, in the order pushed, and once 1001
\* entries were pushed the first one is gone.
C7_BufferKeepsMostRecent ==
  /\ Len(requestLogs) <= 1000
  /\ Len(requestLogs) = IF appended - cleared < 1000 THEN appended - cleared ELSE 1000
  /\ \A i \in 1..Len(requestLogs) :
       requestLogs[i].id = appended - Len(requestLogs) + i
  /\ appended >= 1001 => \A i \in 1..Len(requestLogs) : requestLogs[i].id # 1

\* C7 happens: two calls in flight together pushed the entries 1001 and 1002
\* and the buffer starts at the third entry.
C7_Witness ==
  /\ appended = 1002
  /\ Len(requestLogs) = 1000
  /\ requestLogs[1].id = 3
  /\ \A c \in Slots : calls[c].pc = "returned"

\* The flag of the named model was not false when the call's filter ran
WasAvailable(call, modelName) ==
  /\ modelName \in ModelNames
  /\ call.filterAvail[KeyOfModelName(modelName)] # FALSE

\* C8: the selected model, the fallback model and every alternative of a
\* routing decision were not marked unavailable in the registry as the
\* candidate filter of that decision read it.
C8_DecisionFromAvailable ==
  \A c \in Slots :
    LET call == calls[c]
        decision == call.routingDecision
    IN HasDecision(call)
       => /\ WasAvailable(call, decision.selectedModel)
          /\ decision.fallbackModel # Undefined => WasAvailable(call, decision.fallbackModel)
          /\ \A i \in 1..Len(decision.alternatives) :
               WasAvailable(call, decision.alternatives[i].modelName)

\* C8 happens: a decision with a fallback and alternatives whose selected
\* model another request has marked unavailable since.
C8_Witness ==
  \E c \in Slots :
    /\ calls[c].pc = "decided"
    /\ avail[SelectedKey(calls[c])] = FALSE
    /\ calls[c].routingDecision.fallbackModel # Undefined
    /\ Len(calls[c].routingDecision.alternatives) > 0

\* A step of the reset of availability, and of nothing else
ResetStep ==
  /\ avail' = [k \in Keys |-> TRUE]
  /\ UNCHANGED <<clients, created, metrics, requestLogs, calls, started, appended, cleared>>

\* C9: every flag is true initially, and a step that turns a flag from false
\* to true is a reset of availability.
C9_OnlyResetRestores ==
  /\ \A k \in Keys : avail[k] = TRUE
  /\ [][(\E k \in Keys : avail[k] = FALSE /\ avail'[k] = TRUE) => ResetStep]_vars

\* C9 happens: with a flag false, a call has been answered and the metrics
\* were reset.
C9_Witness ==
  /\ \E k \in Keys : avail[k] = FALSE
  /\ \E c \in Slots : calls[c].pc = "returned" /\ ~PrimaryFailed(calls[c])
  /\ appended > 0 /\ cleared = appended

\* C10: whatever the registry, the reset makes every flag true, and a second
\* reset leaves the registry as the first one did.
C10_ResetIdempotent ==
  /\ [](/\ resetAllModelAvailability(avail) = [k \in Keys |-> TRUE]
        /\ resetAllModelAvailability(resetAllModelAvailability(avail))
             = resetAllModelAvailability(avail))
  /\ [][ResetStep => avail' = resetAllModelAvailability(avail)]_vars

\* C10 happens: a routing decision found every flag false, and every flag is
\* true again.
C10_Witness ==
  /\ \A k \in Keys : avail[k] = TRUE
  /\ \E c \in Slots : /\ DOMAIN calls[c].filterAvail = Keys
                       /\ \A k \in Keys : calls[c].filterAvail[k] = FALSE

\* The candidate filter of the call ran and found no model
NoCandidate(call) ==
  /\ DOMAIN call.filterAvail = Keys
  /\ Len(getAvailableModels(call.promptType,
                            CeilQuarter(PromptLength(Prompts[call.prompt])),
                            call.filterAvail)) = 0

\* C11: a routePrompt call whose candidate filter found no model has no
\* routing decision and ends with a routing failure thrown to its caller,
\* never with a response.
C11_NoCandidateIsFailure ==
  \A c \in Slots :
    NoCandidate(calls[c])
    => /\ ~HasDecision(calls[c])
       /\ Finished(calls[c]) => (calls[c].pc = "threw" /\ calls[c].result.kind = "error")

\* The classifier of the call raised: the call has no prompt to classify
ClassifierRaised(call) == call.pc # "idle" /\ call.prompt \notin PromptIds

C13_OutageDegrades ==
  /\ [](\A c \in Slots :
          /\ calls[c].pc = "classifying"
             => HeuristicResults[calls[c].prompt].confidence < 700000
          /\ (/\ calls[c].classificationMethod = "heuristic_fallback"
              /\ calls[c].pc \notin {"idle", "classified"})
             => HasDecision(calls[c]))
  /\ [][\A c \in Slots :
          ClassifyFail(c)
          => LET h == HeuristicResults[calls[c].prompt]
                 confidence == calls'[c].classificationConfidence
             IN /\ calls'[c].pc = "classified"
                /\ calls'[c].promptType = h.promptType
                /\ calls'[c].classificationMethod = "heuristic_fallback"
                /\ IF h.confidence >= 200000
                   THEN 2 * confidence <= h.confidence /\ h.confidence < 2 * confidence + 2
                   ELSE confidence = 100000]_vars

\* C13 happens: the only call made consulted the model classifier for "x+y",
\* which failed, and has its routing decision for MATH_REASONING at half the
\* heuristic's confidence.
C13_Witness ==
  /\ started = 1
  /\ clients["gpt-4o-mini"] # NoClient
  /\ \E c \in Slots :
       /\ calls[c].pc = "decided"
       /\ calls[c].prompt = "math"
       /\ calls[c].promptType = "math_reasoning"
       /\ calls[c].classificationMethod = "heuristic_fallback"
       /\ calls[c].classificationConfidence > 100000
       /\ calls[c].classificationConfidence < 350000

\* A classifier's result is in range: a category of the enumeration and a
\* confidence in [0, 1]
InRange(promptType, confidence) ==
  /\ promptType \in {"code", "summarize", "qa", "creative", "math_reasoning", "unknown"}
  /\ confidence >= 0
  /\ confidence <= 1000000

\* C14: for every prompt classified and every reply of the classification
\* backend, the results of the heuristic, of the model classifier and of the
\* hybrid classifier are in range, and the heuristic's confidence is at most
\* 0.9.
C14_ResultsInRange ==
  /\ [](\A c \in Slots :
          calls[c].prompt \in PromptIds
          => /\ InRange(HeuristicResults[calls[c].prompt].promptType,
                        HeuristicResults[calls[c].prompt].confidence)
             /\ HeuristicResults[calls[c].prompt].confidence <= 900000
             /\ InRange(calls[c].promptType, calls[c].classificationConfidence))
  /\ [][\A c \in Slots : \A reply \in ClassifyReplies :
          (/\ calls[c].pc = "classifying"
           /\ calls'[c] = Classified(calls[c],
                                     Combined(HeuristicResults[calls[c].prompt], reply)))
          => InRange(parseClassificationResponse(reply).promptType,
                     parseClassificationResponse(reply).confidence)]_vars

\* C15: the model classifier returns MATH_REASONING for no reply of the
\* classification backend, and a call is classified MATH_REASONING only when
\* the heuristic classifier's result for its prompt is MATH_REASONING.
C15_OnlyHeuristicMath ==
  /\ [](\A c \in Slots :
          calls[c].promptType = "math_reasoning"
          => /\ calls[c].prompt \in PromptIds
             /\ HeuristicResults[calls[c].prompt].promptType = "math_reasoning")
  /\ [][\A c \in Slots : \A reply \in ClassifyReplies :
          (/\ calls[c].pc = "classifying"
           /\ calls'[c] = Classified(calls[c],
                                     Combined(HeuristicResults[calls[c].prompt], reply)))
          => parseClassificationResponse(reply).promptType # "math_reasoning"]_vars

\* C15 happens: for "x+y" the backend answered MATH_REASONING with confidence
\* 0.95 in one call, which is classified UNKNOWN by the model, and gave no
\* JSON in another, which is classified MATH_REASONING by the heuristic.
C15_Witness ==
  \E c, d \in Slots :
    /\ calls[c].prompt = "math" /\ calls[d].prompt = "math"
    /\ calls[c].classificationMethod = "model"
    /\ calls[c].promptType = "unknown"
    /\ calls[c].classificationConfidence = 950000
    /\ calls[d].classificationMethod = "heuristic"
    /\ calls[d].promptType = "math_reasoning"

\* C20: two calls that have classified the same prompt, with the same
\* environment and the same registry, have the same category, the same
\* classification confidence and the same method.
C20_ClassifyIsPure ==
  \A c, d \in Slots :
    (/\ calls[c].pc = "classified"
     /\ calls[d].pc = "classified"
     /\ calls[c].prompt = calls[d].prompt)
    => /\ calls[c].promptType = calls[d].promptType
       /\ calls[c].classificationConfidence = calls[d].classificationConfidence
       /\ calls[c].classificationMethod = calls[d].classificationMethod

\* The candidates of the call's decision, as its filter found them
Candidates(call) ==
  getAvailableModels(call.promptType, CeilQuarter(PromptLength(Prompts[call.prompt])),
                     call.filterAvail)

\* The score of the named candidate of the call, as reported (a NaN as 0)
ReportedScore(call, modelName) ==
  LET models == Candidates(call)
      i == CHOOSE i \in 1..Len(models) : models[i].modelName = modelName
  IN OrZero(ModelScore(models[i], models, PRIORITY_WEIGHTS[call.priorityPreset],
                       call.promptType,
                       CeilQuarter(PromptLength(Prompts[call.prompt]))))

\* C16: a decision over at least two candidates has min(4, candidates - 1)
\* alternatives; they are candidates other than the selected model, each with
\* its own score, no two the same; their scores do not increase, none is above
\* the selected model's, and no candidate left out scores above one of them.
C16_AlternativesRanked ==
  \A c \in Slots :
    LET call == calls[c]
        decision == call.routingDecision
        alts == decision.alternatives
        names == {Candidates(call)[i].modelName : i \in 1..Len(Candidates(call))}
        n == Len(Candidates(call))
        altNames == {alts[i].modelName : i \in 1..Len(alts)}
    IN (HasDecision(call) /\ n >= 2)
       => /\ Len(alts) = IF n - 1 < 4 THEN n - 1 ELSE 4
          /\ altNames \subseteq names \ {decision.selectedModel}
          /\ Cardinality(altNames) = Len(alts)
          /\ decision.score = ReportedScore(call, decision.selectedModel)
          /\ \A i \in 1..Len(alts) :
               /\ alts[i].score = ReportedScore(call, alts[i].modelName)
               /\ alts[i].score <= decision.score
               /\ i > 1 => alts[i].score <= alts[i - 1].score
               /\ \A m \in names \ (altNames \cup {decision.selectedModel}) :
                    ReportedScore(call, m) <= alts[i].score

\* C16 happens: a decision over three candidates, with two alternatives of
\* different scores.
C16_Witness ==
  /\ calls[1].pc = "decided"
  /\ Len(Candidates(calls[1])) = 3
  /\ Len(calls[1].routingDecision.alternatives) = 2
  /\ calls[1].routingDecision.alternatives[2].score
       < calls[1].routingDecision.alternatives[1].score

\* C17: every routing decision, of the engine or of the fallback path,
\* reports for the call's preset the triple of the table BALANCED (0.45,
\* 0.30, 0.25), QUALITY (0.65, 0.15, 0.20), COST (0.30, 0.50, 0.20), LATENCY
\* (0.30, 0.20, 0.50), which the engine scores with and which sums to 1.
C17_WeightsOfTheTable ==
  \A c \in Slots :
    LET table == DEFAULT_PRIORITY_WEIGHTS[calls[c].priorityPreset]
        scoredWith == PRIORITY_WEIGHTS[calls[c].priorityPreset]
    IN /\ HasDecision(calls[c])
          => /\ scoredWith = table
             /\ calls[c].routingDecision.priorityWeights = table
             /\ table.quality + table.cost + table.latency = 100
       /\ calls[c].result.kind = "response"
          => calls[c].result.routingDecision.priorityWeights = table

\* C18: under the preset COST, no candidate with the selected model's quality
\* prior for the category has a lower input price than the selected model.
C18_CostPicksCheapestOfEqualQuality ==
  \A c \in Slots :
    LET call == calls[c]
        models == Candidates(call)
        selected == MODEL_REGISTRY[SelectedKey(call)]
    IN (HasDecision(call) /\ call.priorityPreset = "cost")
       => \A i \in 1..Len(models) :
            LET m == MODEL_REGISTRY[models[i].key]
            IN m.qualityPriorByType[call.promptType]
                 = selected.qualityPriorByType[call.promptType]
               => selected.priceInputPerMillion <= m.priceInputPerMillion

\* The one character U+2026, the horizontal ellipsis
Ellipsis == <<"U+2026">>

\* C19: the response of a call, from the selected model or from the fallback,
\* is the generated text unchanged with wasTruncated false when the text has
\* at most 3000 characters; when it has more, it is either the text unchanged
\* with wasTruncated false, or the text up to and including its last '.' or
\* '\n' at an index cut with 2400 < cut <= 3000, followed by the one-character
\* ellipsis, with no character beyond index 3001 and wasTruncated true.
C19_TruncationContract ==
  \A c \in Slots :
    calls[c].result.kind = "response"
    => LET response == calls[c].result.response
           text == response.content
           breaks == {i \in text.dots \cup text.newlines : i <= maxResponseLength}
           unchanged == /\ response.kept = text.length
                        /\ response.suffix = << >>
                        /\ ~calls[c].result.wasTruncated
           cutAt(cut) == /\ 10 * cut > 8 * maxResponseLength
                         /\ \A i \in breaks : i <= cut
                         /\ response.kept = cut + 1
                         /\ response.suffix = Ellipsis
                         /\ response.kept + Len(response.suffix) - 1 <= maxResponseLength + 1
                         /\ calls[c].result.wasTruncated
       IN IF text.length <= maxResponseLength
          THEN unchanged
          ELSE unchanged \/ \E cut \in breaks : cutAt(cut)

\* C21: a call for the prompt "Write a Python function to sort a list" finds
\* the heuristic matching the CODE keywords write and function and returning
\* CODE with a confidence of at least 0.7, so the hybrid classifier answers
\* heuristic_only and the call never waits for the model classifier.
C21_SortPromptIsHeuristicOnly ==
  \A c \in Slots :
    (calls[c].prompt = "sort" /\ calls[c].pc # "idle") =>
      /\ HeuristicResults["sort"].matchedKeywords
           = <<<<"w", "r", "i", "t", "e">>, <<"f", "u", "n", "c", "t", "i", "o", "n">>>>
      /\ HeuristicResults["sort"].promptType = "code"
      /\ HeuristicResults["sort"].confidence >= 700000
      /\ calls[c].pc # "classifying"
      /\ calls[c].classificationMethod = "heuristic_only"

\* The sum of a field over the entries of the request log
RECURSIVE SumOfLogs(_, _)
SumOfLogs(logs, field) ==
  IF Len(logs) = 0 THEN 0
  ELSE logs[1][field] + SumOfLogs(Tail(logs), field)

\* How often the reported usage counts name a model
UsageOf(m, modelName) ==
  IF modelName \in DOMAIN m.modelUsage THEN m.modelUsage[modelName] ELSE 0

\* C22: what getMetrics reports agrees with the request log: the total cost
\* is the sum of costUsd over the logged requests, the average latency is the
\* mean of their latencyMs, and the usage count of every model is the number
\* of logged requests that selected it.
C22_MetricsAgreeWithLogs ==
  LET m == RouterMetrics(requestLogs, metrics) IN
  /\ m.totalCost = SumOfLogs(requestLogs, "costUsd")
  /\ m.averageLatency * Len(requestLogs) = SumOfLogs(requestLogs, "latencyMs")
  /\ \A modelName \in Names :
       UsageOf(m, modelName)
         = Cardinality({i \in 1..Len(requestLogs) : requestLogs[i].selectedModel = modelName})

\* C23: within one routePrompt call the steps come in order: the decision is
\* taken only once the prompt is classified, the selected backend is invoked
\* only once the decision is taken, the static fallback is invoked after a
\* failure of the selected backend only with markModelUnavailable(selected)
\* already called and, for a registry key, its flag already false, and the
\* log entry is pushed only in the step in which the last backend invocation
\* of the call returns, with no invocation after it.
C23_StepsInOrder ==
  [][\A c \in Slots :
       LET old == calls[c]
           new == calls'[c]
           selected == old.routingDecision.selectedModel
       IN /\ (new.pc = "classified" /\ old.pc # "classified")
               => old.pc \in {"idle", "classifying"}
          /\ (HasDecision(new) /\ ~HasDecision(old))
               => (old.pc = "classified" /\ new.pc = "decided" /\ new.invoked = << >>)
          /\ (new.pc = "generating" /\ old.pc # "generating")
               => /\ old.pc = "decided"
                  /\ new.routingDecision = old.routingDecision
                  /\ new.invoked = <<new.client.modelName>>
                  /\ KeyOfModelName(new.client.modelName) = SelectedKey(old)
          /\ (old.pc = "generating" /\ new.pc = "fallback")
               => /\ selected \in failed'
                  /\ selected \in Keys => avail'[selected] = FALSE
                  /\ new.invoked = Append(old.invoked, StaticFallbackModel)
          /\ new.logged > old.logged
               => /\ old.pc \in {"generating", "fallback"}
                  /\ new.pc = "returned"
                  /\ new.invoked = old.invoked
                  /\ Len(old.invoked) > 0
          /\ (old.logged > 0 /\ new.pc # "idle") => new = old]_vars

C23_Witness ==
  \E c \in Slots :
    /\ calls[c].pc = "returned"
    /\ calls[c].logged = 1
    /\ Len(calls[c].invoked) = 2
    /\ calls[c].routingDecision.selectedModel \in Keys \cap failed
    /\ avail[calls[c].routingDecision.selectedModel] = FALSE

HasAllFields(reply) ==
  /\ reply.json = "object"
  /\ reply.hasCategory /\ reply.hasConfidence /\ reply.hasReasoning

\* C25: for every reply of the classification backend that holds a JSON
\* object with category, confidence and reasoning, the parser returns the
\* category of the reply, matched case-insensitively against CODE, SUMMARIZE,
\* QA and CREATIVE and UNKNOWN otherwise, with every numeric confidence
\* clamped into [0, 1]; for every other reply it returns UNKNOWN with
\* confidence 0.1.
C25_RepliesParsedAsSpecified ==
  [][\A c \in Slots : \A reply \in ClassifyReplies :
       (/\ calls[c].pc = "classifying"
        /\ calls'[c] = Classified(calls[c],
                                  Combined(HeuristicResults[calls[c].prompt], reply)))
       => LET parsed == parseClassificationResponse(reply)
              categoryUpper == toUpperCase(reply.category)
          IN /\ HasAllFields(reply)
                  => parsed.promptType
                       = CASE categoryUpper = "CODE" -> "code"
                           [] categoryUpper = "SUMMARIZE" -> "summarize"
                           [] categoryUpper = "QA" -> "qa"
                           [] categoryUpper = "CREATIVE" -> "creative"
                           [] OTHER -> "unknown"
             /\ (HasAllFields(reply) /\ reply.confidence # NaN)
                  => parsed.confidence
                       = MathMax(0, IF reply.confidence < 1000000 THEN reply.confidence
                                    ELSE 1000000)
             /\ ~HasAllFields(reply)
                  => parsed = [promptType |-> "unknown", confidence |-> 100000]]_vars

(***************************************************************************)
(* The client cache under direct calls and one routePrompt call            *)
(***************************************************************************)
\* Clients created up to which clearCache is still called
MaxCreated == 3

\* The names getClient is called with from outside routePrompt: the key and
\* the provider's name of a model, the static fallback model, and a name of
\* no model
ClientNames ==
  {"gpt-oss-20b", MODEL_REGISTRY["gpt-oss-20b"].modelName, "gpt-4o-mini", "no-such-model"}

\* ModelClientFactory.getClient, called on the shared factory
GetClient ==
  \E modelName \in ClientNames :
    LET got == getClient(clients, created, modelName)
    IN /\ clients' = got.clients
       /\ created' = got.created
       /\ UNCHANGED <<avail, metrics, requestLogs, calls, started, appended, cleared, failed>>

\* ModelClientFactory.clearCache
clearCache ==
  /\ created <= MaxCreated
  /\ clients' = [n \in Names |-> NoClient]
  /\ UNCHANGED <<avail, created, metrics, requestLogs, calls, started, appended, cleared,
                 failed>>

\* The calls made: the code prompt under the default and the cost preset
ClientRequests == {r \in Requests : r.prompt = "code" /\ r.envOk
                                     /\ r.priorityPreset \in {"balanced", "cost"}}

ClientStart(c) == StartWith(c, ClientRequests)

NextClients ==
  \/ GetClient
  \/ clearCache
  \/ \E c \in Slots :
       \/ ClientStart(c) \/ Decide(c) \/ Invoke(c) \/ PrimaryOk(c) \/ PrimaryFail(c)
       \/ FallbackOk(c) \/ FallbackFail(c) \/ Finish(c)

SpecClients == Init /\ [][NextClients]_vars

\* The clients the cache retains for the model of a registry key
RetainedClients(k) ==
  {clients[n] : n \in {k, MODEL_REGISTRY[k].modelName}} \ {NoClient}

\* C26: for every model of the registry the cache retains at most one
\* client, under its registry key and under its provider's name alike; a
\* getClient call with either name returns that client and creates none when
\* there is one; and a retained client is only ever dropped by clearCache,
\* which drops them all.
C26_OneClientPerModel ==
  /\ [](\A k \in Keys :
          /\ Cardinality(RetainedClients(k)) <= 1
          /\ clients[k] = clients[MODEL_REGISTRY[k].modelName]
          /\ \A n \in {k, MODEL_REGISTRY[k].modelName} :
               LET got == getClient(clients, created, n)
               IN /\ ~got.threw
                  /\ got.clients[k] = got.client
                  /\ got.clients[MODEL_REGISTRY[k].modelName] = got.client
                  /\ RetainedClients(k) # {}
                       => (got.client \in RetainedClients(k) /\ got.created = created)
          /\ \A j \in Keys \ {k} : RetainedClients(j) \cap RetainedClients(k) = {})
  /\ [][(\E n \in Names : clients[n] # NoClient /\ clients'[n] # clients[n])
          => \A n \in Names : clients'[n] = NoClient]_vars

\* C26 happens: two calls are waiting for the one client of gpt-oss-20b,
\* which the cache holds under both names, while other clients exist
C26_Witness ==
  /\ clients["gpt-oss-20b"] # NoClient
  /\ clients["gpt-oss-20b"] = clients[MODEL_REGISTRY["gpt-oss-20b"].modelName]
  /\ created > 1
  /\ \A c \in Slots : /\ calls[c].pc = "generating"
                       /\ calls[c].client = clients["gpt-oss-20b"]

\* The selected model of the call was asked while its flag was false
AskedWhileUnavailable(call) ==
  /\ HasDecision(call)
  /\ DOMAIN call.invokeAvail = Keys
  /\ call.invokeAvail[SelectedKey(call)] = FALSE

\* C27: a call whose selected model was marked unavailable after its
\* decision still asks that model, with its decision as it was and no second
\* pass through the routing engine; when the model fails, the call marks it,
\* asks the static fallback model once and ends with a response or with the
\* routing failure.
C27_StaleDecisionIsKept ==
  /\ [][\A c \in Slots :
          (/\ calls[c].pc = "decided"
           /\ avail[SelectedKey(calls[c])] = FALSE
           /\ calls'[c] # calls[c])
          => /\ calls'[c].pc = "generating"
             /\ calls'[c].routingDecision = calls[c].routingDecision
             /\ calls'[c].invoked = <<calls'[c].client.modelName>>
             /\ KeyOfModelName(calls'[c].client.modelName) = SelectedKey(calls[c])
             /\ metrics' = metrics]_vars
  /\ [][\A c \in Slots :
          (/\ AskedWhileUnavailable(calls[c])
           /\ calls[c].pc = "generating"
           /\ calls'[c] # calls[c])
          => \/ /\ calls'[c].pc = "returned"
                /\ calls'[c].invoked = calls[c].invoked
             \/ /\ calls'[c].pc = "fallback"
                /\ calls[c].routingDecision.selectedModel \in failed'
                /\ calls[c].routingDecision.selectedModel \in Keys
                     => avail'[calls[c].routingDecision.selectedModel] = FALSE
                /\ calls'[c].invoked = Append(calls[c].invoked, StaticFallbackModel)]_vars
  /\ [](\A c \in Slots :
          AskedWhileUnavailable(calls[c])
          => /\ calls[c].pc \in {"generating", "fallback", "returned", "threw"}
             /\ calls[c].pc = "generating" => Len(calls[c].invoked) = 1
             /\ PrimaryFailed(calls[c])
                  => /\ Len(calls[c].invoked) = 2
                     /\ calls[c].invoked[2] = StaticFallbackModel
             /\ calls[c].pc = "returned" => calls[c].result.kind = "response"
             /\ calls[c].pc = "threw"
                  => /\ calls[c].result.kind = "error"
                     /\ calls[c].result.message = RoutingFailedMessage(calls[c].errorMessage))

\* C27 happens: the model was available when the call decided and marked
\* unavailable when the call asked it; it failed and the static fallback
\* model answered
C27_Witness ==
  \E c \in Slots :
    /\ AskedWhileUnavailable(calls[c])
    /\ calls[c].filterAvail[SelectedKey(calls[c])] = TRUE
    /\ calls[c].pc = "returned"
    /\ Len(calls[c].invoked) = 2

(***************************************************************************)
(* routePrompt under fair scheduling                                       *)
(***************************************************************************)
\* Why a backend call may fail: the timeout of the call, or an error of the
\* provider
LiveReasons == {"timeout", "HTTP 503"}

\* The calls made: one prompt the heuristic settles and one it does not
LiveRequests == {r \in Requests : r.envOk /\ r.priorityPreset = "balanced"
                                   /\ r.prompt \in {"code", "greeting"}}

LiveStart(c) == StartWith(c, LiveRequests)

\* RoutingEngine.routeRequest under the default preset for every category,
\* prompt and registry: the decision, or none for an empty candidate list
LiveDecisions ==
  {[promptType |-> promptType, prompt |-> prompt, avail |-> av,
    routingDecision |->
      LET estimatedTokens == CeilQuarter(PromptLength(Prompts[prompt]))
          availableModels == getAvailableModels(promptType, estimatedTokens, av)
      IN IF Len(availableModels) = 0 THEN NoDecision
         ELSE MakeDecision(availableModels, "balanced", promptType, estimatedTokens)] :
     promptType \in PromptTypeSet, prompt \in {r.prompt : r \in LiveRequests},
     av \in [Keys -> BOOLEAN]}

\* Decide, with the decision looked up in LiveDecisions
LiveDecide(c) ==
  /\ calls[c].pc = "classified"
  /\ LET call == calls[c]
         routingDecision == (CHOOSE d \in LiveDecisions :
                                /\ d.promptType = call.promptType
                                /\ d.prompt = call.prompt
                                /\ d.avail = avail).routingDecision
         got == getClient(clients, created, StaticFallbackModel)
     IN /\ metrics' = updateMetrics(metrics, call.promptType)
        /\ IF routingDecision = NoDecision
           THEN /\ calls' = [calls EXCEPT ![c] =
                               HandleRoutingError(
                                 [call EXCEPT !.filterAvail = avail],
                                 <<"No available models for prompt type: ", call.promptType>>,
                                 got)]
                /\ clients' = got.clients
                /\ created' = got.created
           ELSE /\ calls' = [calls EXCEPT ![c] =
                               [call EXCEPT !.pc = "decided",
                                            !.filterAvail = avail,
                                            !.routingDecision = routingDecision]]
                /\ UNCHANGED <<clients, created>>
  /\ UNCHANGED <<avail, requestLogs, started, appended, cleared, failed>>

LivePrimaryFail(c) == PrimaryFailWith(c, LiveReasons)

LiveFallbackFail(c) == FallbackFailWith(c, LiveReasons)

\* What a call does once a pending promise of it is settled: the answer or
\* the failure of a classifier or backend call, or the continuation of
\* routePrompt after an await
LiveStep(c) ==
  \/ ClassifyReply(c) \/ ClassifyFail(c) \/ LiveDecide(c) \/ Invoke(c)
  \/ PrimaryOk(c) \/ LivePrimaryFail(c) \/ FallbackOk(c) \/ LiveFallbackFail(c)

NextLive == \E c \in Slots : LiveStart(c) \/ LiveStep(c) \/ Finish(c)

\* Every classifier and backend call eventually returns or fails, and the
\* event loop runs every continuation that is ready.
SpecLive == Init /\ [][NextLive]_vars /\ \A c \in Slots : WF_vars(LiveStep(c))

\* C28: every routePrompt call eventually ends with a response or with the
\* routing failure; until then it has asked at most two models, and a call
\* whose selected model failed, by a timeout or otherwise, has asked the
\* static fallback model and nothing else after it.
C28_CallsTerminate ==
  /\ \A c \in Slots : (calls[c].pc # "idle") ~> Finished(calls[c])
  /\ [](\A c \in Slots :
          /\ Len(calls[c].invoked) <= 2
          /\ PrimaryFailed(calls[c])
               => (Len(calls[c].invoked) = 2 /\ calls[c].invoked[2] = StaticFallbackModel)
          /\ calls[c].pc = "returned" => calls[c].result.kind = "response"
          /\ calls[c].pc = "threw" => calls[c].result.kind = "error")

\* C28 happens: the selected model timed out, the static fallback model
\* failed otherwise, and the call ended with the routing failure
C28_Witness ==
  \E c \in Slots :
    /\ calls[c].pc = "threw"
    /\ PrimaryFailed(calls[c])
    /\ calls[c].errorMessage[Len(calls[c].errorMessage)] = "timeout"
    /\ calls[c].result.fallbackError[Len(calls[c].result.fallbackError)] = "HTTP 503"

\* C29: the static fallback model is asked whatever its flag, and the answer
\* or the failure of the static fallback model leaves every flag as it was;
\* the step that hands a call to the fallback changes no flag but that of the
\* model that has just failed.
C29_FallbackIgnoresFlags ==
  /\ [][\A c \in Slots :
          (calls[c].pc = "fallback" /\ calls'[c] # calls[c])
          => /\ avail' = avail
             /\ calls'[c].pc \in {"returned", "threw"}
             /\ calls'[c].invoked = calls[c].invoked]_vars
  /\ [][\A c \in Slots :
          (calls[c].pc \in {"classified", "generating"} /\ calls'[c].pc # calls[c].pc
           /\ calls'[c].pc \notin {"decided", "returned"})
          => /\ calls'[c].pc = "fallback"
             /\ calls'[c].client.modelName = StaticFallbackModel
             /\ calls'[c].invoked = Append(calls[c].invoked, StaticFallbackModel)
             /\ \A k \in Keys :
                  (calls[c].pc = "generating" => k # calls[c].routingDecision.selectedModel)
                  => avail'[k] = avail[k]]_vars

\* C29 happens: the flag of gpt-4o-mini was false from the decision on, the
\* selected model, another one, failed, and the fallback answered
C29_Witness ==
  \E c \in Slots :
    /\ calls[c].pc = "returned"
    /\ PrimaryFailed(calls[c])
    /\ calls[c].routingDecision.selectedModel # StaticFallbackModel
    /\ calls[c].filterAvail[StaticFallbackModel] = FALSE
    /\ avail[StaticFallbackModel] = FALSE
    /\ calls[c].invoked[2] = StaticFallbackModel
    /\ calls[c].result.modelUsed = "gpt-4o-mini (fallback)"

\* C30: for every decision, over whatever non-empty candidate list and
\* under whatever preset, the score of every candidate is a number: no
\* normalisation divides by zero, also when all candidates have one price.
C30_ScoresAreNumbers ==
  \A c \in Slots :
    LET call == calls[c]
        models == Candidates(call)
    IN HasDecision(call)
       => \A i \in 1..Len(models) :
            ModelScore(models[i], models, PRIORITY_WEIGHTS[call.priorityPreset],
                       call.promptType,
                       CeilQuarter(PromptLength(Prompts[call.prompt]))) # NaN

====
